---- MODULE Spec2Model ----
(***************************************************************************)
(* A model of ledcat: the frame reader (src/src/input/select.rs) and the   *)
(* three-stage frame pipeline (src/src/main.rs, pipe_frames).              *)
(*                                                                         *)
(* SpecReader  the frame reader with its inputs (regular files and FIFOs   *)
(*             with their writers) and a caller issuing read() calls.      *)
(* SpecPipe    pipe_frames: the read, transform and output threads, the    *)
(*             two sync_channel(1) queues, the error channel and main.     *)
(* SpecFrame   one frame through the transform stage and the Generic RGB24 *)
(*             codec (src/src/device/generic.rs).                          *)
(* SpecDim     the dimming of one pixel.                                    *)
(* SpecTable   transposition_table (src/src/main.rs) with the              *)
(*             transpositions of src/src/input/geometry.rs.                *)
(* SpecCodec   the APA102, SK9822, WS2812 and Generic RGB16 codecs          *)
(*             (src/src/device).                                           *)
(* SpecArtnet  the Art-Net sender (src/src/driver/artnet/unicast.rs).      *)
(* SpecHub     the HUB75 output and its worker (src/src/device/hub75.rs).  *)
(* SpecReaderIO  the frame reader on inputs whose reads may fail.          *)
(* SpecStream  the frame reader with an input that never runs dry, under   *)
(*             fair scheduling of the reading thread.                      *)
(* SpecTimeout the clear timeout from the command line to poll.            *)
(* SpecListFile, SpecListFileFair  the Art-Net list-file watcher           *)
(*             (src/src/driver/artnet/target.rs), the second with the      *)
(*             watcher thread scheduled fairly.                            *)
(* SpecFlux    the Flux-LED display (src/src/device/fluxled/bulb.rs).      *)
(* SpecGpio    the GPIO lines of the HUB75 worker, call by call.           *)
(***************************************************************************)
EXTENDS Integers, Sequences, FiniteSets, TLC

(***************************************************************************)
(* Bounds of the model.                                                    *)
(***************************************************************************)
\* Number of inputs handed to Reader::from.
NumInputs == 2
\* switch_after: the frame size in bytes.
SwitchAfter == 2
\* The most bytes the inputs supply together over a run.
MaxBytes == 4

Inputs == 1..NumInputs

Min(a, b) == IF a <= b THEN a ELSE b

\* The s-th byte supplied by input i. Bytes are tagged by where they come
\* from so that the reader's output can be traced back to its inputs.
ByteOf(i, s) == <<i, s>>

\* The bytes number lo..hi of input i, in order.
BytesOf(i, lo, hi) == [k \in 1..(hi - lo + 1) |-> ByteOf(i, lo + k - 1)]

ExitConditions == {"Never", "OneClosed", "AllClosed"}

\* Buffer sizes the caller passes to read(): a single byte, or a whole frame
\* (read_exact with a frame-sized buffer, as pipe_frames does).
ReadLens == {1, SwitchAfter}

VARIABLES
    \* ---- the reader's configuration (Reader::from) ----
    exit_condition,   \* ExitCondition
    clear_timeout,    \* TRUE: Some(duration), FALSE: None
    \* ---- the inputs: the environment of the reader ----
    kind,             \* kind[i]: "file" (regular file, memfd) or "fifo"
    avail,            \* avail[i]: bytes supplied on input i and not yet read
    supplied,         \* supplied[i]: number of bytes input i supplied so far
    wopen,            \* wopen[i]: a writer holds the FIFO open
    \* ---- the reader's state ----
    buffers,          \* buffers[i]: partially received frame of input i
    current,          \* the cursor's buffer: the frame selected for output
    position,         \* the cursor's position in current
    rpc,              \* "idle": not in read(); "fetch": in read()'s loop; "panic"
    want,             \* the length of the caller's buffer in the pending read()
    \* ---- what the caller saw ----
    out,              \* all bytes read() returned so far, in order
    lastRet,          \* what the last read() returned (-1: no read returned yet,
                      \* -2: an error)
    nOk,              \* number of read() calls that returned at least one byte
    onlyFrameReads,   \* every read() so far was given a frame-sized buffer
    \* ---- history ----
    discarded         \* bytes that were in a buffer when a poll timeout cleared it

readerVars == <<exit_condition, clear_timeout, kind, avail, supplied, wopen,
                buffers, current, position, rpc, want,
                out, lastRet, nOk, onlyFrameReads, discarded>>

VARIABLES
    \* ---- the arguments of pipe_frames ----
    single_frame,     \* stop after one frame
    dim,              \* the global dim, 0..255
    transposition,    \* the transposition table: 0-based indices, as a sequence
    srcLen,           \* the number of whole frames the input holds before EOF
    \* ---- the threads ----
    pc,               \* pc[stage]: where each spawned thread is
    held,             \* held[stage]: the frame the thread works on
    nRead,            \* frames the read stage has read from the input
    \* ---- the channels ----
    inputQ,           \* sync_channel(1) from the read to the transform stage
    mapQ,             \* sync_channel(1) from the transform to the output stage
    errQ,             \* the error channel: errors sent and not yet received
    \* ---- the outcome ----
    result,           \* what pipe_frames returned ("running": it has not yet)
    exited,           \* main has returned: the process is gone
    exitCode,         \* the process's exit status
    \* ---- history ----
    sunk,             \* frames for which output_frame returned Ok, in order
    errLog,           \* all errors ever sent on the error channel, with the sender
    panicked          \* threads that died on an unwrap of a failed send

pipeVars == <<single_frame, dim, transposition, srcLen, pc, held, nRead,
              inputQ, mapQ, errQ, result, exited, exitCode, sunk, errLog, panicked>>

VARIABLES
    \* ---- one frame through the transform stage and the codec ----
    fr_bin,           \* the raw frame: num_pixels * 3 bytes
    fr_table,         \* the transposition table
    fr_corr,          \* the colour correction: "none" or "srgb"
    fr_dim,           \* the global dim, 0..255
    fr_pixels,        \* the transform's output frame (<<>>: not yet made)
    fr_written,       \* the bytes write_frame wrote (<<>>: nothing yet)
    \* ---- the dimming of one pixel ----
    dm_pix,           \* the pixel <<r, g, b>>
    dm_dim,           \* the global dim, 0..255
    dm_out,           \* the dimmed pixel (<<>>: not yet computed)
    \* ---- transposition_table ----
    tt_dimensions,    \* the Dimensions value
    tt_operations,    \* the names given with --transpose, in order
    tt_result         \* what transposition_table returned ("none": not called)

frameVars == <<fr_bin, fr_table, fr_corr, fr_dim, fr_pixels, fr_written>>
dimVars == <<dm_pix, dm_dim, dm_out>>
tableVars == <<tt_dimensions, tt_operations, tt_result>>

VARIABLES
    \* ---- a device codec's write_frame ----
    cd_device,        \* "apa102", "sk9822" or "ws2812"
    cd_grayscale,     \* the 5-bit grayscale of the APA102 and the SK9822
    cd_pixels,        \* the frame handed to write_frame
    cd_written,       \* the bytes written to the writer
    cd_done,          \* write_frame has returned
    \* ---- the Art-Net sender (Unicast) ----
    an_universe,      \* Unicast::universe
    an_frame_size,    \* Unicast::frame_size
    an_addrs,         \* the addresses the target yields, in order
    an_frame_buffer,  \* Unicast::frame_buffer
    an_written,       \* how many bytes write() was given so far
    an_packet,        \* the packet buffer of the last flush that built one
    an_sent,          \* the datagrams handed to send_to, in order
    an_ret,           \* what the last write() or flush() returned ("none": no call yet)
    an_failed,        \* a write() or flush() has returned an error
    \* ---- the HUB75 output ----
    hb_width,         \* the dimensions of the matrix
    hb_height,
    hb_level_select,  \* the number of level-select pins
    hb_red,           \* the number of red, green and blue pins
    hb_green,
    hb_blue,
    hb_pwm_cycles,    \* --pwm
    hb_args,          \* how the options are stored, and which pins cannot be opened
    hb_built,         \* what from_command returned ("pending": not called)
    hb_caller,        \* where the thread calling output_frame is
    hb_offer,         \* the frame a blocked send holds (0: none)
    hb_queue,         \* the messages buffered in the frame channel
    hb_frames,        \* how many frames output_frame was called with
    hb_worker,        \* where the worker thread is
    hb_cycle,         \* refresh_display calls left in this round of the loop
    hb_cur_frame,     \* the frame the worker displays (0: the initial black one)
    hb_err_queue,     \* errors the worker sent and output_frame has not seen
    hb_ret            \* what the last output_frame returned

codecVars == <<cd_device, cd_grayscale, cd_pixels, cd_written, cd_done>>
artnetVars == <<an_universe, an_frame_size, an_addrs, an_frame_buffer, an_written,
                an_packet, an_sent, an_ret, an_failed>>
hubVars == <<hb_width, hb_height, hb_level_select, hb_red, hb_green, hb_blue,
             hb_pwm_cycles, hb_args, hb_built, hb_caller, hb_offer, hb_queue, hb_frames,
             hb_worker, hb_cycle, hb_cur_frame, hb_err_queue, hb_ret>>

VARIABLES
    \* ---- the clear timeout, from the command line to poll ----
    ct_arg,             \* the digits of the --clear-timeout value
    ct_overflow_checks, \* the build checks integer overflow (debug) or wraps
    ct_state,           \* "args", "set" (main built the duration), "polled", "panic"
    ct_duration,        \* the Duration handed to the reader
    ct_poll             \* the timeout handed to poll, in milliseconds

timeoutVars == <<ct_arg, ct_overflow_checks, ct_state, ct_duration, ct_poll>>

VARIABLES
    \* ---- the Art-Net list file and its watcher thread ----
    lf_mtime,          \* the file's modification time
    lf_lines,          \* the file's lines
    lf_statable,       \* fs::metadata and modified() succeed
    lf_openable,       \* fs::File::open succeeds
    lf_sender,         \* "alive" or "dropped": the ListFile and its shared list
    lf_thread,         \* "loop", "retry" (at a `continue`), "reload", "sleep", "exited"
    lf_prev_mod_time,  \* 0 for None, else the time in Some
    lf_cache           \* the shared address list

listFileVars == <<lf_mtime, lf_lines, lf_statable, lf_openable, lf_sender, lf_thread,
                  lf_prev_mod_time, lf_cache>>

VARIABLES
    \* ---- the Flux-LED display and its bulbs ----
    fx_frame,    \* the frame the output stage writes: one pixel per bulb
    fx_conn,     \* per bulb: conn is Some
    fx_buf,      \* Display.buf
    fx_outcome,  \* per bulb: what the network calls of this write do
    fx_last,     \* per bulb: what set_constant_color did in the last write
    fx_frames,   \* the number of frames written
    fx_ret       \* "none", or the result of the last write

fluxVars == <<fx_frame, fx_conn, fx_buf, fx_outcome, fx_last, fx_frames, fx_ret>>

VARIABLES
    \* ---- the HUB75 worker's GPIO lines during refresh_display ----
    gp_width,       \* Worker.width
    gp_nls,         \* the number of level-select pins
    gp_lines,       \* the number of [r, g, b] pin groups
    gp_pwm_cycles,  \* Worker.pwm_cycles
    gp_frame,       \* Worker.cur_frame
    gp_i,           \* the grayscale pass of the loop of Worker::run
    gp_row,         \* the position in scan_interleaved, from 1
    gp_pc,          \* the next set_value call of the row, from 1
    gp_pin,         \* per pin: the level of the line
    gp_state,       \* per pin: GpioOutBuffer.state
    gp_calls,       \* the set_value calls of the row update so far
    gp_fails,       \* the number of GPIO writes that failed
    gp_ret          \* "none", or the result of the last refresh_display

gpioVars == <<gp_width, gp_nls, gp_lines, gp_pwm_cycles, gp_frame, gp_i, gp_row, gp_pc,
              gp_pin, gp_state, gp_calls, gp_fails, gp_ret>>

vars == <<readerVars, pipeVars, frameVars, dimVars, tableVars, codecVars, artnetVars, hubVars,
          timeoutVars, listFileVars, fluxVars, gpioVars>>

\* What the reader's actions leave alone, and what the pipeline's do.
outsideReader == <<pipeVars, frameVars, dimVars, tableVars, codecVars, artnetVars, hubVars,
                   timeoutVars, listFileVars, fluxVars, gpioVars>>
outsidePipe == <<readerVars, frameVars, dimVars, tableVars, codecVars, artnetVars, hubVars,
                 timeoutVars, listFileVars, fluxVars, gpioVars>>
outsideFrame == <<readerVars, pipeVars, dimVars, tableVars, codecVars, artnetVars, hubVars,
                  timeoutVars, listFileVars, fluxVars, gpioVars>>
outsideDim == <<readerVars, pipeVars, frameVars, tableVars, codecVars, artnetVars, hubVars,
                timeoutVars, listFileVars, fluxVars, gpioVars>>
outsideTable == <<readerVars, pipeVars, frameVars, dimVars, codecVars, artnetVars, hubVars,
                  timeoutVars, listFileVars, fluxVars, gpioVars>>
outsideCodec == <<readerVars, pipeVars, frameVars, dimVars, tableVars, artnetVars, hubVars,
                  timeoutVars, listFileVars, fluxVars, gpioVars>>
outsideArtnet == <<readerVars, pipeVars, frameVars, dimVars, tableVars, codecVars, hubVars,
                   timeoutVars, listFileVars, fluxVars, gpioVars>>
outsideHub == <<readerVars, pipeVars, frameVars, dimVars, tableVars, codecVars, artnetVars,
                timeoutVars, listFileVars, fluxVars, gpioVars>>
outsideTimeout == <<readerVars, pipeVars, frameVars, dimVars, tableVars, codecVars, artnetVars,
                    hubVars, listFileVars, fluxVars, gpioVars>>
outsideListFile == <<readerVars, pipeVars, frameVars, dimVars, tableVars, codecVars, artnetVars,
                     hubVars, timeoutVars, fluxVars, gpioVars>>
outsideFlux == <<readerVars, pipeVars, frameVars, dimVars, tableVars, codecVars, artnetVars,
                 hubVars, timeoutVars, listFileVars, gpioVars>>
outsideGpio == <<readerVars, pipeVars, frameVars, dimVars, tableVars, codecVars, artnetVars,
                 hubVars, timeoutVars, listFileVars, fluxVars>>

\* The number of bytes all inputs supplied so far.
RECURSIVE SumTo(_, _)
SumTo(f, n) == IF n = 0 THEN 0 ELSE f[n] + SumTo(f, n - 1)
TotalSupplied == SumTo(supplied, NumInputs)

(***************************************************************************)
(* poll(2) on the inputs.                                                  *)
(***************************************************************************)
\* The revents poll reports for input i. A regular file is always readable;
\* a FIFO is readable when it holds data and hung up when no writer is left.
Revents(i) ==
    IF kind[i] = "file" THEN {"POLLIN"}
    ELSE (IF avail[i] # <<>> THEN {"POLLIN"} ELSE {})
         \cup (IF ~wopen[i] THEN {"POLLHUP"} ELSE {})

\* poll's return value: the number of inputs with a non-empty revents.
PollCount == Cardinality({i \in Inputs : Revents(i) # {}})

(***************************************************************************)
(* Reader::read, lines 119-125: the timeout clears every buffer.           *)
(***************************************************************************)
\* A reader that forgets to clear on a timeout.
ClearBuffersKeep(bufs) == bufs

ClearBuffers(bufs) == [i \in Inputs |-> <<>>]

(***************************************************************************)
(* Reader::read, lines 158-162: the exit decision of a pass.               *)
(***************************************************************************)
\* A reader that under AllClosed closes as soon as any input is closed.
ExitCloseAnyClosed(ec, num_open, len, ready_index) ==
    CASE ec = "Never" -> FALSE
      [] ec = "OneClosed" -> num_open < len /\ ready_index = 0
      [] ec = "AllClosed" -> num_open < len

\* A reader that under Never closes when no input is open.
ExitCloseNeverCloses(ec, num_open, len, ready_index) ==
    CASE ec = "Never" -> num_open = 0
      [] ec = "OneClosed" -> num_open < len /\ ready_index = 0
      [] ec = "AllClosed" -> num_open = 0

\* A reader that under OneClosed closes even when an input completed a frame.
ExitCloseIgnoresReady(ec, num_open, len, ready_index) ==
    CASE ec = "Never" -> FALSE
      [] ec = "OneClosed" -> num_open < len
      [] ec = "AllClosed" -> num_open = 0

ExitClose(ec, num_open, len, ready_index) ==
    CASE ec = "Never" -> FALSE
      [] ec = "OneClosed" -> num_open < len /\ ready_index = 0
      [] ec = "AllClosed" -> num_open = 0

(***************************************************************************)
(* Reader::read, lines 145: a buffer holds a whole frame.                  *)
(***************************************************************************)
\* A reader that takes any received byte for a whole frame.
FrameCompleteEarly(buf) == Len(buf) >= 1

FrameComplete(buf) == Len(buf) = SwitchAfter

(***************************************************************************)
(* Reader::read, lines 137-140: the buffer is resized to switch_after and  *)
(* the input is read into the part after buf_used, so a read returns what  *)
(* is available, at most the remaining capacity.                           *)
(***************************************************************************)
\* A read that takes everything that is available.
ReadLenGreedy(buf_used, available) == available

ReadLen(buf_used, available) == Min(available, SwitchAfter - buf_used)

(***************************************************************************)
(* Reader::read, lines 129-156: the scan over the poll results, from input *)
(* i on. ready_index 0 stands for None.                                    *)
(***************************************************************************)
RECURSIVE ScanInputs(_, _, _, _, _)
ScanInputs(i, rev, bufs, av, num_open) ==
    IF i > NumInputs
    THEN [buffers |-> bufs, avail |-> av, num_open |-> num_open,
          ready_index |-> 0, panic |-> FALSE, examined |-> Inputs]
    ELSE IF "POLLIN" \in rev[i]
    THEN LET buf_used == Len(bufs[i]) IN
         IF buf_used = SwitchAfter
         THEN \* assert_ne!(buf_used, self.switch_after)
              [buffers |-> bufs, avail |-> av, num_open |-> num_open,
               ready_index |-> 0, panic |-> TRUE, examined |-> 1..i]
         ELSE LET nread == ReadLen(buf_used, Len(av[i]))
                  buf   == bufs[i] \o SubSeq(av[i], 1, nread)
                  bufs2 == [bufs EXCEPT ![i] = buf]
                  av2   == [av EXCEPT ![i] = SubSeq(av[i], nread + 1, Len(av[i]))]
              IN  IF Len(buf) > SwitchAfter
                  THEN \* assert!(buf.len() <= self.switch_after)
                       [buffers |-> bufs2, avail |-> av2, num_open |-> num_open,
                        ready_index |-> 0, panic |-> TRUE, examined |-> 1..i]
                  ELSE IF nread = 0
                  THEN ScanInputs(i + 1, rev, bufs2, av2, num_open - 1)
                  ELSE IF FrameComplete(buf)
                  THEN [buffers |-> bufs2, avail |-> av2, num_open |-> num_open,
                        ready_index |-> i, panic |-> FALSE, examined |-> 1..i]
                  ELSE ScanInputs(i + 1, rev, bufs2, av2, num_open)
    ELSE IF rev[i] \cap {"POLLHUP", "POLLNVAL", "POLLERR"} # {}
    THEN ScanInputs(i + 1, rev, bufs, av, num_open - 1)
    ELSE ScanInputs(i + 1, rev, bufs, av, num_open)

(***************************************************************************)
(* Reader::read, lines 179-182: split_off, push, swap_remove. The frame is *)
(* the first switch_after bytes of the ready buffer; the tail takes the    *)
(* buffer's place.                                                         *)
(***************************************************************************)
\* A reader that swap_removes without pushing the tail first: the last
\* input's buffer lands in the ready input's place.
TakeFrameNoPush(bufs, r) ==
    [frame |-> SubSeq(bufs[r], 1, Min(SwitchAfter, Len(bufs[r]))),
     buffers |-> [k \in Inputs |-> IF k = r THEN bufs[NumInputs] ELSE bufs[k]]]

\* A reader that starts every buffer afresh when it hands out a frame.
TakeFrameClearsAll(bufs, r) ==
    [frame |-> SubSeq(bufs[r], 1, Min(SwitchAfter, Len(bufs[r]))),
     buffers |-> [k \in Inputs |-> <<>>]]

TakeFrame(bufs, r) ==
    LET head == SubSeq(bufs[r], 1, Min(SwitchAfter, Len(bufs[r])))
        tail == SubSeq(bufs[r], SwitchAfter + 1, Len(bufs[r]))
        pushed == [k \in 1..(NumInputs + 1) |-> IF k <= NumInputs THEN bufs[k] ELSE tail]
        \* swap_remove(r): the last element takes the place of element r
        swapped == [k \in Inputs |-> IF k = r THEN pushed[NumInputs + 1] ELSE pushed[k]]
    IN  [frame |-> head, buffers |-> swapped]

(***************************************************************************)
(* Reader::read, line 184: io::Cursor::read copies what is left of the     *)
(* current buffer, at most n bytes.                                        *)
(***************************************************************************)
CursorRead(cur, pos, n) ==
    LET k == Min(n, Len(cur) - pos)
    IN  [bytes |-> SubSeq(cur, pos + 1, pos + k), position |-> pos + k]

(***************************************************************************)
(* One iteration of the loop of Reader::read (lines 107-178): poll, clear  *)
(* on timeout, scan, decide. Evaluated in the current state.               *)
(***************************************************************************)
PassResult ==
    LET rev   == [i \in Inputs |-> Revents(i)]
        bufs0 == IF PollCount = 0 THEN ClearBuffers(buffers) ELSE buffers
        scan  == ScanInputs(1, rev, bufs0, avail, NumInputs)
    IN  [scan |-> scan,
         timeout |-> PollCount = 0,
         close |-> ~scan.panic
                   /\ ExitClose(exit_condition, scan.num_open, NumInputs, scan.ready_index)]

(***************************************************************************)
(* Init: the state after Reader::from (lines 82-100), with each input      *)
(* either a regular file of some length or a FIFO whose writer has not     *)
(* written yet.                                                            *)
(***************************************************************************)
ReaderInit ==
    /\ exit_condition \in ExitConditions
    /\ clear_timeout \in BOOLEAN
    /\ kind \in [Inputs -> {"file", "fifo"}]
    /\ supplied \in [Inputs -> 0..MaxBytes]
    /\ \A i \in Inputs : kind[i] = "fifo" => supplied[i] = 0
    /\ TotalSupplied <= MaxBytes
    /\ avail = [i \in Inputs |-> BytesOf(i, 1, supplied[i])]
    /\ wopen = [i \in Inputs |-> kind[i] = "fifo"]
    /\ buffers = [i \in Inputs |-> <<>>]
    /\ current = <<>>
    /\ position = 0
    /\ rpc = "idle"
    /\ want = 0
    /\ out = <<>>
    /\ lastRet = -1
    /\ nOk = 0
    /\ onlyFrameReads = TRUE
    /\ discarded = {}

(***************************************************************************)
(* The writers of the FIFOs.                                               *)
(***************************************************************************)
\* A writer writes k more bytes to FIFO i.
Write(i, k) ==
    /\ kind[i] = "fifo"
    /\ wopen[i]
    /\ TotalSupplied + k <= MaxBytes
    /\ avail' = [avail EXCEPT ![i] = @ \o BytesOf(i, supplied[i] + 1, supplied[i] + k)]
    /\ supplied' = [supplied EXCEPT ![i] = @ + k]
    /\ UNCHANGED <<exit_condition, clear_timeout, kind, wopen, buffers, current,
                   position, rpc, want, out, lastRet, nOk, onlyFrameReads,
                   discarded>>
    /\ UNCHANGED outsideReader

\* The last writer of FIFO i closes its end.
CloseWriter(i) ==
    /\ kind[i] = "fifo"
    /\ wopen[i]
    /\ wopen' = [wopen EXCEPT ![i] = FALSE]
    /\ UNCHANGED <<exit_condition, clear_timeout, kind, avail, supplied, buffers,
                   current, position, rpc, want, out, lastRet, nOk, onlyFrameReads,
                   discarded>>
    /\ UNCHANGED outsideReader

(***************************************************************************)
(* What is recorded of the reads that returned bytes: all of them, or,     *)
(* with an input that never runs dry, the last one.                        *)
(***************************************************************************)
HasStream == \E i \in Inputs : kind[i] = "stream"
OutAfter(bytes) == IF HasStream THEN bytes ELSE out \o bytes
OkAfter == IF HasStream THEN 1 ELSE nOk + 1

(***************************************************************************)
(* Reader::read (lines 104-105, 184): the caller calls read() with a       *)
(* buffer of n bytes. With bytes left in the current frame the call        *)
(* returns them at once; otherwise it enters the fetch loop.               *)
(***************************************************************************)
ReadCall(n) ==
    /\ rpc = "idle"
    /\ onlyFrameReads' = (onlyFrameReads /\ n = SwitchAfter)
    /\ IF position = Len(current)
       THEN /\ rpc' = "fetch"
            /\ want' = n
            /\ UNCHANGED <<position, out, lastRet, nOk>>
       ELSE LET rd == CursorRead(current, position, n) IN
            /\ position' = rd.position
            /\ out' = OutAfter(rd.bytes)
            /\ lastRet' = Len(rd.bytes)
            /\ nOk' = OkAfter
            /\ UNCHANGED <<rpc, want>>
    /\ UNCHANGED <<exit_condition, clear_timeout, kind, avail, supplied, wopen,
                   buffers, current, discarded>>
    /\ UNCHANGED outsideReader

(***************************************************************************)
(* Reader::read (lines 107-184): one iteration of the fetch loop. poll     *)
(* blocks while no input is ready unless a clear timeout is set. The       *)
(* writers only append and close, so the system calls of one iteration     *)
(* see the same thing as if they ran at once: a write that lands between   *)
(* poll and read on an input poll reported readable could as well have     *)
(* landed before the poll, and one on an input poll did not report is not  *)
(* looked at in this iteration.                                            *)
(***************************************************************************)
PollPass ==
    /\ rpc = "fetch"
    /\ PollCount > 0 \/ clear_timeout
    /\ LET res  == PassResult
           scan == res.scan
       IN
       /\ avail' = scan.avail
       /\ discarded' = IF res.timeout
                       THEN discarded \cup
                            UNION {{buffers[i][k] : k \in 1..Len(buffers[i])} : i \in Inputs}
                       ELSE discarded
       /\ IF scan.panic
          THEN /\ rpc' = "panic"
               /\ buffers' = scan.buffers
               /\ UNCHANGED <<current, position, out, lastRet, nOk>>
          ELSE IF res.close
          THEN \* return Ok(0)
               /\ rpc' = "idle"
               /\ lastRet' = 0
               /\ buffers' = scan.buffers
               /\ UNCHANGED <<current, position, out, nOk>>
          ELSE IF scan.ready_index # 0
          THEN LET tf == TakeFrame(scan.buffers, scan.ready_index)
                   rd == CursorRead(tf.frame, 0, want)
               IN  /\ buffers' = tf.buffers
                   /\ current' = tf.frame
                   /\ position' = rd.position
                   /\ out' = OutAfter(rd.bytes)
                   /\ lastRet' = Len(rd.bytes)
                   /\ nOk' = OkAfter
                   /\ rpc' = "idle"
          ELSE \* no winner: sleep if nothing is open, then poll again
               /\ buffers' = scan.buffers
               /\ UNCHANGED <<rpc, current, position, out, lastRet, nOk>>
    /\ UNCHANGED <<exit_condition, clear_timeout, kind, supplied, wopen, want,
                   onlyFrameReads>>
    /\ UNCHANGED outsideReader

(***************************************************************************)
(* Reader::read (lines 129-139): an iteration of the fetch loop in which   *)
(* the read of input f fails (EINTR, EIO, ...). The inputs before f were   *)
(* scanned as usual and none completed a frame; buffer f was resized to    *)
(* switch_after (line 137) before the read, and the `?` of line 139        *)
(* returns the error before line 140 takes the padding off again.          *)
(***************************************************************************)
\* The byte resize pads with.
ZeroByte == <<0, 0>>

PollPassReadError(f) ==
    /\ rpc = "fetch"
    /\ "POLLIN" \in Revents(f)
    /\ Len(buffers[f]) # SwitchAfter
    /\ LET rev  == [i \in Inputs |-> IF i < f THEN Revents(i) ELSE {}]
           scan == ScanInputs(1, rev, buffers, avail, NumInputs)
       IN  /\ ~scan.panic
           /\ scan.ready_index = 0
           /\ avail' = scan.avail
           /\ buffers' = [scan.buffers EXCEPT ![f] =
                             @ \o [k \in 1..(SwitchAfter - Len(@)) |-> ZeroByte]]
    /\ rpc' = "idle"
    /\ lastRet' = -2
    /\ UNCHANGED <<exit_condition, clear_timeout, kind, supplied, wopen, current,
                   position, want, out, nOk, onlyFrameReads, discarded>>
    /\ UNCHANGED outsideReader

(***************************************************************************)
(* An input that never runs dry: a FIFO whose writer writes the next frame *)
(* whenever the FIFO is empty and never closes it.                         *)
(***************************************************************************)
Produce(i) ==
    /\ kind[i] = "stream"
    /\ avail[i] = <<>>
    /\ avail' = [avail EXCEPT ![i] = BytesOf(i, 1, SwitchAfter)]
    /\ UNCHANGED <<exit_condition, clear_timeout, kind, supplied, wopen, buffers,
                   current, position, rpc, want, out, lastRet, nOk, onlyFrameReads,
                   discarded>>
    /\ UNCHANGED outsideReader

\* The state after Reader::from with at least one such input among the
\* inputs.
StreamInit ==
    /\ exit_condition \in ExitConditions
    /\ clear_timeout \in BOOLEAN
    /\ kind \in [Inputs -> {"file", "fifo", "stream"}]
    /\ HasStream
    /\ supplied \in [Inputs -> 0..MaxBytes]
    /\ \A i \in Inputs : kind[i] # "file" => supplied[i] = 0
    /\ TotalSupplied <= MaxBytes
    /\ avail = [i \in Inputs |-> BytesOf(i, 1, supplied[i])]
    /\ wopen = [i \in Inputs |-> kind[i] # "file"]
    /\ buffers = [i \in Inputs |-> <<>>]
    /\ current = <<>>
    /\ position = 0
    /\ rpc = "idle"
    /\ want = 0
    /\ out = <<>>
    /\ lastRet = -1
    /\ nOk = 0
    /\ onlyFrameReads = TRUE
    /\ discarded = {}

(***************************************************************************)
(* The reader at rest: the values of its variables while the pipeline is   *)
(* looked at on its own.                                                   *)
(***************************************************************************)
ReaderIdle ==
    /\ exit_condition = "AllClosed"
    /\ clear_timeout = FALSE
    /\ kind = [i \in Inputs |-> "file"]
    /\ supplied = [i \in Inputs |-> 0]
    /\ avail = [i \in Inputs |-> <<>>]
    /\ wopen = [i \in Inputs |-> FALSE]
    /\ buffers = [i \in Inputs |-> <<>>]
    /\ current = <<>>
    /\ position = 0
    /\ rpc = "idle"
    /\ want = 0
    /\ out = <<>>
    /\ lastRet = -1
    /\ nOk = 0
    /\ onlyFrameReads = TRUE
    /\ discarded = {}

(***************************************************************************)
(* pipe_frames (src/src/main.rs, lines 298-387).                           *)
(***************************************************************************)
\* The most whole frames the input holds.
MaxFrames == 6
\* num_pixels = transposition.len()
NumPixels == 2

FrameBytes == NumPixels * 3

Stages == {"read", "transform", "output"}

\* The k-th frame of the input: num_pixels * 3 bytes.
InputFrame(k) == [j \in 1..FrameBytes |-> (k * 50 + j * 17) % 256]

\* Transposition tables handed to pipe_frames: the identity and the reverse.
IdentityTable == [i \in 1..NumPixels |-> i - 1]
ReverseTable == [i \in 1..NumPixels |-> NumPixels - (i - 1) - 1]

\* Correction::none() (src/src/color/mod.rs, lines 31-37): the table 0..=255,
\* as a function of the channel value.
CorrectionNone == [v \in 0..255 |-> v]

\* Correction::srgb(255, 255, 255) (src/src/color/mod.rs, lines 40-57):
\* entry i is round(srgb(i / 255) * 255), the same for the three channels.
SrgbValues ==
    <<
         0,   0,   0,   0,   0,   0,   0,   1,   1,   1,   1,   1,   1,   1,   1,   1,
         1,   1,   2,   2,   2,   2,   2,   2,   2,   2,   3,   3,   3,   3,   3,   3,
         4,   4,   4,   4,   4,   5,   5,   5,   5,   6,   6,   6,   6,   7,   7,   7,
         8,   8,   8,   8,   9,   9,   9,  10,  10,  10,  11,  11,  12,  12,  12,  13,
        13,  13,  14,  14,  15,  15,  16,  16,  17,  17,  17,  18,  18,  19,  19,  20,
        20,  21,  22,  22,  23,  23,  24,  24,  25,  25,  26,  27,  27,  28,  29,  29,
        30,  30,  31,  32,  32,  33,  34,  35,  35,  36,  37,  37,  38,  39,  40,  41,
        41,  42,  43,  44,  45,  45,  46,  47,  48,  49,  50,  51,  51,  52,  53,  54,
        55,  56,  57,  58,  59,  60,  61,  62,  63,  64,  65,  66,  67,  68,  69,  70,
        71,  72,  73,  74,  76,  77,  78,  79,  80,  81,  82,  84,  85,  86,  87,  88,
        90,  91,  92,  93,  95,  96,  97,  99, 100, 101, 103, 104, 105, 107, 108, 109,
       111, 112, 114, 115, 116, 118, 119, 121, 122, 124, 125, 127, 128, 130, 131, 133,
       134, 136, 138, 139, 141, 142, 144, 146, 147, 149, 151, 152, 154, 156, 157, 159,
       161, 163, 164, 166, 168, 170, 171, 173, 175, 177, 179, 181, 183, 184, 186, 188,
       190, 192, 194, 196, 198, 200, 202, 204, 206, 208, 210, 212, 214, 216, 218, 220,
       222, 224, 226, 229, 231, 233, 235, 237, 239, 242, 244, 246, 248, 250, 253, 255
    >>
CorrectionSrgb == [v \in 0..255 |-> SrgbValues[v + 1]]

\* The corrections main hands to pipe_frames (lines 233-240), by name.
CorrectionOf(name) == IF name = "srgb" THEN CorrectionSrgb ELSE CorrectionNone

\* Correction::correct (src/src/color/mod.rs, lines 59-65).
Correct(table, pix) == <<table[pix[1]], table[pix[2]], table[pix[3]]>>

\* A dimming that multiplies in u8.
DimChannelU8(c, d) == ((c * d) % 256) \div 255

\* Lines 350-354: the dimming of one channel: the product in u16, the
\* quotient cast to u8.
DimChannel(c, d) == (((c * d) % 65536) \div 255) % 256

\* The u16 product of line 352 does not fit 16 bits.
DimOverflows(c, d) == c * d > 65535

\* Lines 349-356: the dimming of one pixel.
DimPixel(pix, d) == [c \in 1..3 |-> DimChannel(pix[c], d)]

\* A transform that loads output pixel q from input position table[q].
TransformFrameGather(bin_buffer, table, correction, d) ==
    LET pixel(i) == <<bin_buffer[3 * i + 1], bin_buffer[3 * i + 2], bin_buffer[3 * i + 3]>>
    IN  [q \in 1..Len(table) |-> Correct(correction, DimPixel(pixel(table[q]), d))]

\* Lines 339-362: the transform of one raw frame. Pixel i (0-based) of the
\* input is dimmed, corrected and stored at transposition[i]; positions no
\* index maps to keep the zero pixel, and a later store overwrites an earlier.
TransformFrame(bin_buffer, table, correction, d) ==
    LET pixel(i) == <<bin_buffer[3 * i + 1], bin_buffer[3 * i + 2], bin_buffer[3 * i + 3]>>
        n == Min(Len(table), Len(bin_buffer) \div 3)
        stored(p) == {i \in 0..(n - 1) : table[i + 1] = p}
        last(S) == CHOOSE i \in S : \A j \in S : j <= i
    IN  [q \in 1..Len(table) |->
            IF stored(q - 1) = {} THEN <<0, 0, 0>>
            ELSE Correct(correction, DimPixel(pixel(last(stored(q - 1))), d))]

\* The values of --dim the model runs with, as the u8 that main computes.
DimValues == {255, 128}

\* The error channel's receiver is dropped when pipe_frames returns.
ErrRxDropped == result # "running"

\* try_or_send (lines 308-318): on Err the error is sent on the error channel
\* (the unwrap panics when the receiver is gone) and the thread returns.
AfterError(stage) == "done"

TryOrSendErr(stage, err) ==
    /\ pc' = [pc EXCEPT ![stage] = AfterError(stage)]
    /\ held' = [held EXCEPT ![stage] = <<>>]
    /\ IF ErrRxDropped
       THEN /\ panicked' = panicked \cup {stage}
            /\ UNCHANGED <<errQ, errLog>>
       ELSE /\ errQ' = Append(errQ, [from |-> stage, err |-> err])
            /\ errLog' = Append(errLog, [from |-> stage, err |-> err])
            /\ UNCHANGED panicked

PipeInit ==
    /\ single_frame \in BOOLEAN
    /\ dim \in DimValues
    /\ transposition \in {IdentityTable, ReverseTable}
    /\ srcLen \in 0..MaxFrames
    /\ pc = [s \in Stages |-> "start"]
    /\ held = [s \in Stages |-> <<>>]
    /\ nRead = 0
    /\ inputQ = <<>>
    /\ mapQ = <<>>
    /\ errQ = <<>>
    /\ result = "running"
    /\ exited = FALSE
    /\ exitCode = -1
    /\ sunk = <<>>
    /\ errLog = <<>>
    /\ panicked = {}

\* The pipeline before pipe_frames is called: its variables while the reader
\* is looked at on its own.
PipeIdle ==
    /\ single_frame = FALSE
    /\ dim = 255
    /\ transposition = IdentityTable
    /\ srcLen = 0
    /\ pc = [s \in Stages |-> "start"]
    /\ held = [s \in Stages |-> <<>>]
    /\ nRead = 0
    /\ inputQ = <<>>
    /\ mapQ = <<>>
    /\ errQ = <<>>
    /\ result = "running"
    /\ exited = FALSE
    /\ exitCode = -1
    /\ sunk = <<>>
    /\ errLog = <<>>
    /\ panicked = {}

(***************************************************************************)
(* The read stage (lines 323-335). pc "start": at read_exact; "send": at   *)
(* input_tx.send.                                                          *)
(***************************************************************************)
\* read_exact fills the buffer with the next whole frame.
ReadFrame ==
    /\ ~exited
    /\ pc["read"] = "start"
    /\ nRead < srcLen
    /\ nRead' = nRead + 1
    /\ held' = [held EXCEPT !["read"] = InputFrame(nRead + 1)]
    /\ pc' = [pc EXCEPT !["read"] = "send"]
    /\ UNCHANGED <<single_frame, dim, transposition, srcLen, inputQ, mapQ, errQ,
                   result, exited, exitCode, sunk, errLog, panicked>>
    /\ UNCHANGED outsidePipe

\* The reader returns 0 bytes on a frame boundary: read_exact fails with
\* UnexpectedEof, which try_or_send reports.
ReadEof ==
    /\ ~exited
    /\ pc["read"] = "start"
    /\ nRead = srcLen
    /\ TryOrSendErr("read", "UnexpectedEof")
    /\ UNCHANGED <<single_frame, dim, transposition, srcLen, nRead, inputQ, mapQ,
                   result, exited, exitCode, sunk>>
    /\ UNCHANGED outsidePipe

\* The read fails with an I/O error.
ReadFail ==
    /\ ~exited
    /\ pc["read"] = "start"
    /\ TryOrSendErr("read", "ReadError")
    /\ UNCHANGED <<single_frame, dim, transposition, srcLen, nRead, inputQ, mapQ,
                   result, exited, exitCode, sunk>>
    /\ UNCHANGED outsidePipe

\* A channel that never makes its sender wait.
SlotFreeUnbounded(q) == TRUE

\* mpsc::sync_channel(1) (lines 322 and 337): a send goes through while the
\* channel's buffer of one message is not taken, and blocks otherwise.
SlotFree(q) == Len(q) < 1

\* A receive that leaves the frame in the channel.
RecvRestKeeps(q) == q

\* map_rx.recv() and input_rx's iterator take the oldest message out of the
\* channel: what the channel holds afterwards.
RecvRest(q) == Tail(q)

\* A read stage that ignores single_frame.
AfterSendLoops(sf) == "start"

\* Lines 331-333: after the send the read stage leaves its loop when
\* single_frame is set and reads the next frame otherwise.
AfterSend(sf) == IF sf THEN "done" ELSE "start"

\* input_tx.send(bin_buffer).unwrap(), then the single_frame test. The send
\* blocks while the queue's one slot is taken and fails when the transform
\* stage has dropped the receiver.
ReadSend ==
    /\ ~exited
    /\ pc["read"] = "send"
    /\ IF pc["transform"] = "done"
       THEN /\ panicked' = panicked \cup {"read"}
            /\ pc' = [pc EXCEPT !["read"] = "done"]
            /\ UNCHANGED inputQ
       ELSE /\ SlotFree(inputQ)
            /\ inputQ' = Append(inputQ, held["read"])
            /\ pc' = [pc EXCEPT !["read"] = AfterSend(single_frame)]
            /\ UNCHANGED panicked
    /\ held' = [held EXCEPT !["read"] = <<>>]
    /\ UNCHANGED <<single_frame, dim, transposition, srcLen, nRead, mapQ, errQ,
                   result, exited, exitCode, sunk, errLog>>
    /\ UNCHANGED outsidePipe

(***************************************************************************)
(* The transform stage (lines 338-364). pc "start": at the iterator's      *)
(* recv; "send": at map_tx.send.                                           *)
(***************************************************************************)
TransformRecv ==
    /\ ~exited
    /\ pc["transform"] = "start"
    /\ IF inputQ # <<>>
       THEN /\ held' = [held EXCEPT !["transform"] =
                           TransformFrame(Head(inputQ), transposition, CorrectionNone, dim)]
            /\ inputQ' = RecvRest(inputQ)
            /\ pc' = [pc EXCEPT !["transform"] = "send"]
       ELSE \* the sender is gone and the queue is empty: the loop ends
            /\ pc["read"] = "done"
            /\ pc' = [pc EXCEPT !["transform"] = "done"]
            /\ UNCHANGED <<held, inputQ>>
    /\ UNCHANGED <<single_frame, dim, transposition, srcLen, nRead, mapQ, errQ,
                   result, exited, exitCode, sunk, errLog, panicked>>
    /\ UNCHANGED outsidePipe

TransformSend ==
    /\ ~exited
    /\ pc["transform"] = "send"
    /\ IF pc["output"] = "done"
       THEN /\ panicked' = panicked \cup {"transform"}
            /\ pc' = [pc EXCEPT !["transform"] = "done"]
            /\ UNCHANGED mapQ
       ELSE /\ SlotFree(mapQ)
            /\ mapQ' = Append(mapQ, held["transform"])
            /\ pc' = [pc EXCEPT !["transform"] = "start"]
            /\ UNCHANGED panicked
    /\ held' = [held EXCEPT !["transform"] = <<>>]
    /\ UNCHANGED <<single_frame, dim, transposition, srcLen, nRead, inputQ, errQ,
                   result, exited, exitCode, sunk, errLog>>
    /\ UNCHANGED outsidePipe

(***************************************************************************)
(* The output stage (lines 366-381). pc "start": at map_rx.recv; "write":  *)
(* at dev.output_frame.                                                    *)
(***************************************************************************)
OutputRecv ==
    /\ ~exited
    /\ pc["output"] = "start"
    /\ IF mapQ # <<>>
       THEN /\ held' = [held EXCEPT !["output"] = Head(mapQ)]
            /\ mapQ' = RecvRest(mapQ)
            /\ pc' = [pc EXCEPT !["output"] = "write"]
       ELSE \* Err(_) => break
            /\ pc["transform"] = "done"
            /\ pc' = [pc EXCEPT !["output"] = "done"]
            /\ UNCHANGED <<held, mapQ>>
    /\ UNCHANGED <<single_frame, dim, transposition, srcLen, nRead, inputQ, errQ,
                   result, exited, exitCode, sunk, errLog, panicked>>
    /\ UNCHANGED outsidePipe

\* dev.output_frame returns Ok; the thread paces itself and loops.
OutputWrite ==
    /\ ~exited
    /\ pc["output"] = "write"
    /\ sunk' = Append(sunk, held["output"])
    /\ held' = [held EXCEPT !["output"] = <<>>]
    /\ pc' = [pc EXCEPT !["output"] = "start"]
    /\ UNCHANGED <<single_frame, dim, transposition, srcLen, nRead, inputQ, mapQ,
                   errQ, result, exited, exitCode, errLog, panicked>>
    /\ UNCHANGED outsidePipe

\* dev.output_frame returns an error, which try_or_send reports.
OutputFail ==
    /\ ~exited
    /\ pc["output"] = "write"
    /\ TryOrSendErr("output", "OutputError")
    /\ UNCHANGED <<single_frame, dim, transposition, srcLen, nRead, inputQ, mapQ,
                   result, exited, exitCode, sunk>>
    /\ UNCHANGED outsidePipe

(***************************************************************************)
(* The main thread.                                                        *)
(***************************************************************************)
\* A receiver that hands out the newest message instead of the oldest.
VerdictNewest(q) == q[Len(q)]

\* The message err_rx.recv() hands out: the oldest in the channel.
Verdict(q) == Head(q)

\* Lines 383-386: err_rx.recv() returns the first error sent, or fails once
\* both senders (the read stage's and the output stage's) are dropped and
\* nothing is queued; pipe_frames returns.
MainRecv ==
    /\ result = "running"
    /\ IF errQ # <<>>
       THEN /\ result' = Verdict(errQ).err
            /\ errQ' = Tail(errQ)
       ELSE /\ pc["read"] = "done"
            /\ pc["output"] = "done"
            /\ result' = "Ok"
            /\ UNCHANGED errQ
    /\ UNCHANGED <<single_frame, dim, transposition, srcLen, pc, held, nRead,
                   inputQ, mapQ, exited, exitCode, sunk, errLog, panicked>>
    /\ UNCHANGED outsidePipe

\* main, lines 287-296: the result of pipe_frames is dropped (let _ = ...)
\* and main returns (), so the process exits with status 0.
MainExitCode(res) == 0

\* main returns: the process exits and takes the threads with it.
MainExit ==
    /\ result # "running"
    /\ ~exited
    /\ exited' = TRUE
    /\ exitCode' = MainExitCode(result)
    /\ UNCHANGED <<single_frame, dim, transposition, srcLen, pc, held, nRead,
                   inputQ, mapQ, errQ, result, sunk, errLog, panicked>>
    /\ UNCHANGED outsidePipe

(***************************************************************************)
(* One frame through the transform stage (src/src/main.rs, lines 339-362) *)
(* and Generic::write_frame (src/src/device/generic.rs, lines 22-30).      *)
(***************************************************************************)
\* The most pixels a frame has.
MaxPix == 3

\* Pixels the input frames are made of.
ExamplePixels ==
    << <<170, 187, 204>>, <<17, 34, 51>>, <<68, 85, 102>>,
       <<119, 136, 153>>, <<200, 100, 50>>, <<255, 0, 128>> >>

\* Raw frames of n pixels: the bytes 00 01 02 ..., the pixels above, and a
\* frame of bright bytes.
RampFrame(n) == [j \in 1..(3 * n) |-> (j - 1) % 256]
ExampleFrame(n) ==
    [j \in 1..(3 * n) |->
        ExamplePixels[(((j - 1) \div 3) % Len(ExamplePixels)) + 1][((j - 1) % 3) + 1]]
BrightFrame(n) == [j \in 1..(3 * n) |-> (200 + j * 37) % 256]
Frames(n) == {RampFrame(n), ExampleFrame(n), BrightFrame(n)}

\* The tables of n entries that are permutations of 0..n-1.
TablesOf(n) ==
    {t \in [1..n -> 0..(n - 1)] : \A a, b \in 1..n : t[a] = t[b] => a = b}

\* A codec that emits the channels in the order b, g, r.
WriteFrameBGR(pixels) ==
    [j \in 1..(3 * Len(pixels)) |-> pixels[((j - 1) \div 3) + 1][3 - ((j - 1) % 3)]]

\* Generic::write_frame, Format::RGB24 (generic.rs, lines 24-30): r, g, b of
\* every pixel in frame order, written with one write_all.
WriteFrameRGB24(pixels) ==
    [j \in 1..(3 * Len(pixels)) |-> pixels[((j - 1) \div 3) + 1][((j - 1) % 3) + 1]]

FrameInit ==
    /\ \E n \in 1..MaxPix :
          /\ fr_bin \in Frames(n)
          /\ fr_table \in TablesOf(n)
    /\ fr_corr \in {"none", "srgb"}
    /\ fr_dim \in DimValues
    /\ fr_pixels = <<>>
    /\ fr_written = <<>>

FrameIdle ==
    /\ fr_bin = <<>>
    /\ fr_table = <<>>
    /\ fr_corr = "none"
    /\ fr_dim = 255
    /\ fr_pixels = <<>>
    /\ fr_written = <<>>

\* The transform stage's loop body on one raw frame.
TransformStep ==
    /\ fr_pixels = <<>>
    /\ fr_pixels' = TransformFrame(fr_bin, fr_table, CorrectionOf(fr_corr), fr_dim)
    /\ UNCHANGED <<fr_bin, fr_table, fr_corr, fr_dim, fr_written>>
    /\ UNCHANGED outsideFrame

\* The output stage hands the frame to the (Generic, writer) output.
WriteFrameStep ==
    /\ fr_pixels # <<>>
    /\ fr_written = <<>>
    /\ fr_written' = WriteFrameRGB24(fr_pixels)
    /\ UNCHANGED <<fr_bin, fr_table, fr_corr, fr_dim, fr_pixels>>
    /\ UNCHANGED outsideFrame

FrameNext == TransformStep \/ WriteFrameStep

(***************************************************************************)
(* The dimming of one pixel (src/src/main.rs, lines 348-356).              *)
(***************************************************************************)
\* The values of a u8.
Bytes == 0..255

DimInit ==
    /\ \E c \in Bytes : dm_pix = <<c, c \div 2, c \div 4>>
    /\ dm_dim \in Bytes
    /\ dm_out = <<>>

DimIdle ==
    /\ dm_pix = <<0, 0, 0>>
    /\ dm_dim = 255
    /\ dm_out = <<>>

DimStep ==
    /\ dm_out = <<>>
    /\ dm_out' = DimPixel(dm_pix, dm_dim)
    /\ UNCHANGED <<dm_pix, dm_dim>>
    /\ UNCHANGED outsideDim

DimNext == DimStep

(***************************************************************************)
(* transposition_table (src/src/main.rs, lines 389-431) and the            *)
(* transpositions of src/src/input/geometry.rs.                            *)
(***************************************************************************)
\* The longest 1D strip, the widest and the highest 2D matrix, and the
\* longest list of operations.
MaxLen == 4
MaxW == 4
MaxH == 3
MaxOps == 2

\* Dimensions: One(l) or Two(w, h).
DimOne(l) == [tag |-> "One", w |-> l, h |-> 1]
DimTwo(w, h) == [tag |-> "Two", w |-> w, h |-> h]
AllDimensions ==
    {DimOne(l) : l \in 1..MaxLen} \cup {DimTwo(w, h) : w \in 1..MaxW, h \in 1..MaxH}

\* Dimensions::size: the length of a strip, width times height of a matrix.
DimSize(d) == IF d.tag = "One" THEN d.w ELSE d.w * d.h

\* The names --transpose may carry; "bogus" stands for any other word.
OperationNames == {"reverse", "zigzag_x", "zigzag_y", "mirror_x", "mirror_y", "bogus"}

RECURSIVE SeqsUpTo(_, _)
SeqsUpTo(S, n) ==
    IF n = 0 THEN {<<>>}
    ELSE LET shorter == SeqsUpTo(S, n - 1)
         IN  shorter \cup {Append(q, x) : q \in shorter, x \in S}

\* A panic (a failed assert!) inside transpose.
Panic == -1

\* A reverse that rotates the strip by one instead of flipping it.
ReverseRotates(length, index) ==
    IF ~(index < length) THEN Panic ELSE (index + 1) % length

\* Reverse::transpose (geometry.rs, lines 66-71).
Reverse(length, index) ==
    IF ~(index < length) THEN Panic ELSE length - index - 1

\* A mirror that forgets the row when it flips x.
MirrorDropsRow(width, height, axis, index) ==
    IF ~(index < width * height) THEN Panic
    ELSE LET x == index % width
             y == index \div width
         IN  IF axis = "X" THEN width - x - 1
             ELSE width * (height - y - 1) + x

\* Mirror::transpose (geometry.rs, lines 79-89).
Mirror(width, height, axis, index) ==
    IF ~(index < width * height) THEN Panic
    ELSE LET x == index % width
             y == index \div width
         IN  IF axis = "X" THEN width * y + (width - x - 1)
             ELSE width * (height - y - 1) + x

\* Zigzag::transpose (geometry.rs, lines 97-121).
Zigzag(width, height, major_axis, index) ==
    IF ~(index <= width * height) THEN Panic
    ELSE IF major_axis = "X"
         THEN LET x == index % width
                  y == index \div width
              IN  IF x % 2 = 0 THEN x * height + y
                  ELSE x * height + height - y - 1
         ELSE LET y == index \div width
                  x == IF y % 2 = 0 THEN index % width
                       ELSE width - (index % width) - 1
              IN  y * width + x

\* Box<dyn Transposition>::transpose (geometry.rs, lines 50-54): the call
\* goes to the boxed transposition. A panic ends the computation.
Transpose(tr, index) ==
    IF index = Panic THEN Panic
    ELSE CASE tr.type = "Reverse" -> Reverse(tr.length, index)
           [] tr.type = "Mirror" -> Mirror(tr.width, tr.height, tr.axis, index)
           [] tr.type = "Zigzag" -> Zigzag(tr.width, tr.height, tr.major_axis, index)

\* A fold that starts with the last transposition of the list.
RECURSIVE TransposeVecBackwards(_, _)
TransposeVecBackwards(trs, index) ==
    IF trs = <<>> THEN index
    ELSE TransposeVecBackwards(SubSeq(trs, 1, Len(trs) - 1), Transpose(trs[Len(trs)], index))

\* Vec<T>::transpose (geometry.rs, lines 56-60):
\* self.iter().fold(index, |index, tr| tr.transpose(index)).
RECURSIVE TransposeVec(_, _)
TransposeVec(trs, index) ==
    IF trs = <<>> THEN index
    ELSE TransposeVec(Tail(trs), Transpose(Head(trs), index))

\* The axis a name ends in (main.rs, lines 402-406 and 413-417).
AxisOf(name) == IF name \in {"zigzag_x", "mirror_x"} THEN "X" ELSE "Y"

\* A constructor that takes a strip for a matrix one row high.
MakeTranspositionLenient(name, dimensions) ==
    CASE name = "reverse" ->
            [ok |-> TRUE, tr |-> [type |-> "Reverse", length |-> DimSize(dimensions)]]
      [] name \in {"zigzag_x", "zigzag_y"} ->
            [ok |-> TRUE,
             tr |-> [type |-> "Zigzag", width |-> dimensions.w, height |-> dimensions.h,
                     major_axis |-> AxisOf(name)]]
      [] name \in {"mirror_x", "mirror_y"} ->
            [ok |-> TRUE,
             tr |-> [type |-> "Mirror", width |-> dimensions.w, height |-> dimensions.h,
                     axis |-> AxisOf(name)]]
      [] OTHER -> [ok |-> FALSE, err |-> "Unknown transposition"]

\* The closure of lines 395-425: the transposition a name stands for under
\* the dimensions, or the error. The match arms are tried in order.
MakeTransposition(name, dimensions) ==
    CASE name = "reverse" ->
            [ok |-> TRUE, tr |-> [type |-> "Reverse", length |-> DimSize(dimensions)]]
      [] name \in {"zigzag_x", "zigzag_y"} /\ dimensions.tag = "Two" ->
            [ok |-> TRUE,
             tr |-> [type |-> "Zigzag", width |-> dimensions.w, height |-> dimensions.h,
                     major_axis |-> AxisOf(name)]]
      [] name \in {"mirror_x", "mirror_y"} /\ dimensions.tag = "Two" ->
            [ok |-> TRUE,
             tr |-> [type |-> "Mirror", width |-> dimensions.w, height |-> dimensions.h,
                     axis |-> AxisOf(name)]]
      [] name \notin {"reverse", "zigzag_x", "zigzag_y", "mirror_x", "mirror_y"}
           /\ dimensions.tag = "One" ->
            [ok |-> FALSE, err |-> "requires 2D geometry to be specified"]
      [] name \in {"zigzag_x", "zigzag_y", "mirror_x", "mirror_y"}
           /\ dimensions.tag = "One" ->
            [ok |-> FALSE, err |-> "requires 2D geometry to be specified"]
      [] OTHER -> [ok |-> FALSE, err |-> "Unknown transposition"]

\* transposition_table (lines 389-431): the operations are made into
\* transpositions in order and the first error is returned (collect into a
\* Result, then ?); otherwise every index of 0..size-1 goes through the list.
TranspositionTable(dimensions, operations) ==
    LET made == [k \in 1..Len(operations) |-> MakeTransposition(operations[k], dimensions)]
        bad == {k \in 1..Len(operations) : ~made[k].ok}
        first == CHOOSE k \in bad : \A j \in bad : k <= j
        transpositions == [k \in 1..Len(operations) |-> made[k].tr]
        table == [i \in 1..DimSize(dimensions) |-> TransposeVec(transpositions, i - 1)]
    IN  IF bad # {}
        THEN [state |-> "Err", table |-> <<>>, err |-> made[first].err, name |-> operations[first]]
        ELSE IF \E i \in 1..DimSize(dimensions) : table[i] = Panic
        THEN [state |-> "panic", table |-> <<>>, err |-> "", name |-> ""]
        ELSE [state |-> "Ok", table |-> table, err |-> "", name |-> ""]

NotCalled == [state |-> "pending", table |-> <<>>, err |-> "", name |-> ""]

TableInit ==
    /\ tt_dimensions \in AllDimensions
    /\ tt_operations \in SeqsUpTo(OperationNames, MaxOps)
    /\ tt_result = NotCalled

TableIdle ==
    /\ tt_dimensions = DimOne(1)
    /\ tt_operations = <<>>
    /\ tt_result = NotCalled

\* main, line 224: the call of transposition_table.
TableStep ==
    /\ tt_result = NotCalled
    /\ tt_result' = TranspositionTable(tt_dimensions, tt_operations)
    /\ UNCHANGED <<tt_dimensions, tt_operations>>
    /\ UNCHANGED outsideTable

TableNext == TableStep

(***************************************************************************)
(* The SPI codecs: Apa102::write_frame (src/src/device/apa102.rs, lines    *)
(* 25-31), Sk9822::write_frame (src/src/device/sk9822.rs, lines 25-32) and *)
(* Ws2812::write_frame (src/src/device/ws2812.rs, lines 23-49).            *)
(***************************************************************************)
\* a | b on unsigned integers.
RECURSIVE BitOr(_, _)
BitOr(a, b) ==
    IF a = 0 THEN b
    ELSE IF b = 0 THEN a
    ELSE (IF a % 2 = 1 \/ b % 2 = 1 THEN 1 ELSE 0) + 2 * BitOr(a \div 2, b \div 2)

\* 1 << n.
RECURSIVE Pow2(_)
Pow2(n) == IF n = 0 THEN 1 ELSE 2 * Pow2(n - 1)

\* The concatenation of the sequences of a sequence, as flat_map and a loop
\* of write_all calls produce it.
RECURSIVE FlatMap(_)
FlatMap(seqs) == IF seqs = <<>> THEN <<>> ELSE Head(seqs) \o FlatMap(Tail(seqs))

\* The grayscale values the command line hands to from_command. The APA102
\* declares -g without a value name (apa102.rs, line 36), so it takes no
\* value, a command line with -g does not parse, and only the default 31 of
\* line 38 arrives. The SK9822 declares an option with a value, checked to
\* be 0..31 (sk9822.rs, lines 37-42 and 64-75).
GrayscaleValues(device) == IF device = "apa102" THEN {31} ELSE 0..31

\* A pixel frame that starts with the channels in the order r, g, b.
Apa102PixelRGB(grayscale, pix) == <<BitOr(224, grayscale), pix[1], pix[2], pix[3]>>

\* The bytes written for one pixel (apa102.rs, line 28; sk9822.rs, line 28):
\* 0b1110_0000 | grayscale, then b, g, r.
Apa102Pixel(grayscale, pix) == <<BitOr(224, grayscale), pix[3], pix[2], pix[1]>>

\* Apa102::write_frame: a start frame of four zero bytes, then the pixels.
Apa102WriteFrame(grayscale, pixels) ==
    <<0, 0, 0, 0>> \o
    FlatMap([j \in 1..Len(pixels) |-> Apa102Pixel(grayscale, pixels[j])])

\* Sk9822::write_frame: the same, and an end frame of four 0xff bytes.
Sk9822WriteFrame(grayscale, pixels) ==
    <<0, 0, 0, 0>> \o
    FlatMap([j \in 1..Len(pixels) |-> Apa102Pixel(grayscale, pixels[j])]) \o
    <<255, 255, 255, 255>>

\* The channels in the order r, g, b.
Ws2812ChannelsRGB(pix) == <<pix[1], pix[2], pix[3]>>

\* The first flat_map (ws2812.rs, line 32): g, r, b of a pixel.
Ws2812Channels(pix) == <<pix[2], pix[1], pix[3]>>

\* The loop of lines 34-38 from round i on: obits collects 0b100 | (bit << 1)
\* of bit i of b at the bit position i * 3.
RECURSIVE Ws2812Obits(_, _, _)
Ws2812Obits(b, i, obits) ==
    IF i = 8 THEN obits
    ELSE LET middle_bit == (b \div Pow2(i)) % 2
         IN  Ws2812Obits(b, i + 1,
                 BitOr(obits, BitOr(4, middle_bit * 2) * Pow2(i * 3)))

\* The second flat_map (lines 33-44): the three bytes of obits, high first.
Ws2812Byte(b) ==
    LET obits == Ws2812Obits(b, 0, 0)
    IN  <<(obits \div 65536) % 256, (obits \div 256) % 256, obits % 256>>

\* Ws2812::write_frame: the buffer handed to the one write_all.
Ws2812WriteFrame(pixels) ==
    FlatMap([j \in 1..(3 * Len(pixels)) |->
        Ws2812Byte(Ws2812Channels(pixels[((j - 1) \div 3) + 1])[((j - 1) % 3) + 1])])

\* a & b on unsigned integers.
RECURSIVE BitAnd(_, _)
BitAnd(a, b) ==
    IF a = 0 \/ b = 0 THEN 0
    ELSE (IF a % 2 = 1 /\ b % 2 = 1 THEN 1 ELSE 0) + 2 * BitAnd(a \div 2, b \div 2)

\* a << n and a >> n on a u8: the bits shifted out are lost.
ShlU8(a, n) == (a * Pow2(n)) % 256
ShrU8(a, n) == a \div Pow2(n)

\* The two bytes of a pixel with the shift done in a wider integer.
Rgb16PixelWide(pix) ==
    <<BitOr(BitAnd(pix[1], 248), ShrU8(pix[2], 5)),
      BitOr(BitAnd(pix[2], 8) * Pow2(5), ShrU8(pix[3], 3))>>

\* Generic::write_frame, Format::RGB16 (generic.rs, lines 31-42), per pixel:
\* (r & 0xf8) | (g >> 5), then (g & 0x08) << 5 | (b >> 3), all on u8.
Rgb16Pixel(pix) ==
    <<BitOr(BitAnd(pix[1], 248), ShrU8(pix[2], 5)),
      BitOr(ShlU8(BitAnd(pix[2], 8), 5), ShrU8(pix[3], 3))>>

Rgb16WriteFrame(pixels) == FlatMap([j \in 1..Len(pixels) |-> Rgb16Pixel(pixels[j])])

\* Device::write_frame of the device chosen on the command line.
CodecWriteFrame(device, grayscale, pixels) ==
    CASE device = "apa102" -> Apa102WriteFrame(grayscale, pixels)
      [] device = "sk9822" -> Sk9822WriteFrame(grayscale, pixels)
      [] device = "ws2812" -> Ws2812WriteFrame(pixels)
      [] device = "rgb16" -> Rgb16WriteFrame(pixels)

\* The pixels of a raw frame.
PixelsOf(frame) ==
    [j \in 1..(Len(frame) \div 3) |-> <<frame[3 * j - 2], frame[3 * j - 1], frame[3 * j]>>]

\* Frames for the codecs: none, one pixel of every value of each channel,
\* frames of several pixels, and two frames written out by hand.
SweepPixel(v) == <<v, (v + 85) % 256, (v + 170) % 256>>
CodecFrames ==
    {<<>>, << <<10, 20, 30>>, <<40, 50, 60>> >>, << <<0, 128, 0>> >>}
    \cup {<<SweepPixel(v)>> : v \in Bytes}
    \cup {PixelsOf(ExampleFrame(n)) : n \in 1..MaxPix}

CodecInit ==
    /\ cd_device \in {"apa102", "sk9822", "ws2812", "rgb16"}
    /\ cd_grayscale \in (IF cd_device \in {"ws2812", "rgb16"} THEN {0} ELSE GrayscaleValues(cd_device))
    /\ cd_pixels \in CodecFrames
    /\ cd_written = <<>>
    /\ cd_done = FALSE

CodecIdle ==
    /\ cd_device = "apa102"
    /\ cd_grayscale = 0
    /\ cd_pixels = <<>>
    /\ cd_written = <<>>
    /\ cd_done = FALSE

\* The output stage calls write_frame with the frame.
CodecStep ==
    /\ ~cd_done
    /\ cd_written' = CodecWriteFrame(cd_device, cd_grayscale, cd_pixels)
    /\ cd_done' = TRUE
    /\ UNCHANGED <<cd_device, cd_grayscale, cd_pixels>>
    /\ UNCHANGED outsideCodec

CodecNext == CodecStep

(***************************************************************************)
(* The Art-Net sender: Unicast and art_dmx_packet                          *)
(* (src/src/driver/artnet/unicast.rs).                                     *)
(***************************************************************************)
\* The most write calls of one run.
MaxWrites == 2

\* The length from which art_dmx_packet refuses the data (line 132).
MaxDmxLength == 65535

\* Frame sizes: a few pixels, the sizes around the largest packet that can
\* be sent (18 + 65489 bytes) and around the limit of art_dmx_packet.
SmallFrameSizes == {1, 2, 3, 6}
LargeFrameSizes ==
    {65489, 65490, MaxDmxLength - 1, MaxDmxLength, MaxDmxLength + 1}

\* Universes (u16): both bytes zero, one of them zero, both different.
Universes == {0, 1, 255, 256, 4660, 65535}

\* The k-th byte written to the sender: AB CD EF first, then other values.
ArtnetByte(k) ==
    ((IF k % 3 = 1 THEN 171 ELSE IF k % 3 = 2 THEN 205 ELSE 239) + 7 * ((k - 1) \div 3)) % 256
ArtnetBytes(lo, n) == [j \in 1..n |-> ArtnetByte(lo + j - 1)]

\* The lengths of the buffers write is called with: parts of a frame, a
\* frame, and two frames at once, which leaves a frame for a later flush.
ArtnetChunks(frame_size) ==
    IF frame_size \in SmallFrameSizes THEN {1, 2, frame_size}
    ELSE IF frame_size = MaxDmxLength - 1 THEN {frame_size, 2 * frame_size}
    ELSE {frame_size}

\* The most bytes written in one run: MaxWrites frames of the small sizes,
\* and the longest buffer of ArtnetChunks of the large ones.
WriteBudget(frame_size) ==
    IF frame_size \in SmallFrameSizes THEN MaxWrites * frame_size
    ELSE CHOOSE n \in ArtnetChunks(frame_size) :
             \A m \in ArtnetChunks(frame_size) : m <= n

\* write_u16::<LittleEndian> and write_u16::<BigEndian>.
U16LE(v) == <<v % 256, (v \div 256) % 256>>
U16BE(v) == <<(v \div 256) % 256, v % 256>>

\* A check that lets data of 0xffff bytes through.
DmxTooLongAbove(data) == Len(data) > MaxDmxLength

\* art_dmx_packet, line 132.
DmxTooLong(data) == Len(data) >= MaxDmxLength

\* A header with SubUni and Net exchanged.
ArtDmxHeaderNetFirst(universe) ==
    <<65, 114, 116, 45, 78, 101, 116, 0>> \o U16LE(20480) \o
    <<4, 14, 0, 0, (universe \div 256) % 256, universe % 256>>

\* art_dmx_packet, lines 138-145: "Art-Net\0", the opcode 0x5000, ProtVerHi,
\* ProtVerLo, Sequence, Physical, SubUni and Net.
ArtDmxHeader(universe) ==
    <<65, 114, 116, 45, 78, 101, 116, 0>> \o U16LE(20480) \o
    <<4, 14, 0, 0, universe % 256, (universe \div 256) % 256>>

\* art_dmx_packet (lines 128-149) on an empty writer: what it returns and the
\* bytes it wrote.
ArtDmxPacket(data, universe) ==
    IF DmxTooLong(data)
    THEN [ok |-> FALSE, err |-> "data exceeds max dmx packet length", packet |-> <<>>]
    ELSE [ok |-> TRUE, err |-> "",
          packet |-> ArtDmxHeader(universe) \o U16BE(Len(data) % 65536) \o data]

\* The largest datagram sendto takes on a UDP socket over IPv4: 65535 less
\* the IP and UDP headers.
MaxDatagram == 65507

\* The length above which sendto refuses the data before it looks at the
\* address.
MaxSendLength == 65535

\* The texts of the io::Errors the operating system returns, by error
\* number: the description of the C library and the number, as the Display
\* of io::Error prints them.
OsErrors ==
    <<
       "Operation not permitted (os error 1)",
       "No such file or directory (os error 2)",
       "No such process (os error 3)",
       "Interrupted system call (os error 4)",
       "Input/output error (os error 5)",
       "No such device or address (os error 6)",
       "Argument list too long (os error 7)",
       "Exec format error (os error 8)",
       "Bad file descriptor (os error 9)",
       "No child processes (os error 10)",
       "Resource temporarily unavailable (os error 11)",
       "Cannot allocate memory (os error 12)",
       "Permission denied (os error 13)",
       "Bad address (os error 14)",
       "Block device required (os error 15)",
       "Device or resource busy (os error 16)",
       "File exists (os error 17)",
       "Invalid cross-device link (os error 18)",
       "No such device (os error 19)",
       "Not a directory (os error 20)",
       "Is a directory (os error 21)",
       "Invalid argument (os error 22)",
       "Too many open files in system (os error 23)",
       "Too many open files (os error 24)",
       "Inappropriate ioctl for device (os error 25)",
       "Text file busy (os error 26)",
       "File too large (os error 27)",
       "No space left on device (os error 28)",
       "Illegal seek (os error 29)",
       "Read-only file system (os error 30)",
       "Too many links (os error 31)",
       "Broken pipe (os error 32)",
       "Numerical argument out of domain (os error 33)",
       "Numerical result out of range (os error 34)",
       "Resource deadlock avoided (os error 35)",
       "File name too long (os error 36)",
       "No locks available (os error 37)",
       "Function not implemented (os error 38)",
       "Directory not empty (os error 39)",
       "Too many levels of symbolic links (os error 40)",
       "Unknown error 41 (os error 41)",
       "No message of desired type (os error 42)",
       "Identifier removed (os error 43)",
       "Channel number out of range (os error 44)",
       "Level 2 not synchronized (os error 45)",
       "Level 3 halted (os error 46)",
       "Level 3 reset (os error 47)",
       "Link number out of range (os error 48)",
       "Protocol driver not attached (os error 49)",
       "No CSI structure available (os error 50)",
       "Level 2 halted (os error 51)",
       "Invalid exchange (os error 52)",
       "Invalid request descriptor (os error 53)",
       "Exchange full (os error 54)",
       "No anode (os error 55)",
       "Invalid request code (os error 56)",
       "Invalid slot (os error 57)",
       "Unknown error 58 (os error 58)",
       "Bad font file format (os error 59)",
       "Device not a stream (os error 60)",
       "No data available (os error 61)",
       "Timer expired (os error 62)",
       "Out of streams resources (os error 63)",
       "Machine is not on the network (os error 64)",
       "Package not installed (os error 65)",
       "Object is remote (os error 66)",
       "Link has been severed (os error 67)",
       "Advertise error (os error 68)",
       "Srmount error (os error 69)",
       "Communication error on send (os error 70)",
       "Protocol error (os error 71)",
       "Multihop attempted (os error 72)",
       "RFS specific error (os error 73)",
       "Bad message (os error 74)",
       "Value too large for defined data type (os error 75)",
       "Name not unique on network (os error 76)",
       "File descriptor in bad state (os error 77)",
       "Remote address changed (os error 78)",
       "Can not access a needed shared library (os error 79)",
       "Accessing a corrupted shared library (os error 80)",
       ".lib section in a.out corrupted (os error 81)",
       "Attempting to link in too many shared libraries (os error 82)",
       "Cannot exec a shared library directly (os error 83)",
       "Invalid or incomplete multibyte or wide character (os error 84)",
       "Interrupted system call should be restarted (os error 85)",
       "Streams pipe error (os error 86)",
       "Too many users (os error 87)",
       "Socket operation on non-socket (os error 88)",
       "Destination address required (os error 89)",
       "Message too long (os error 90)",
       "Protocol wrong type for socket (os error 91)",
       "Protocol not available (os error 92)",
       "Protocol not supported (os error 93)",
       "Socket type not supported (os error 94)",
       "Operation not supported (os error 95)",
       "Protocol family not supported (os error 96)",
       "Address family not supported by protocol (os error 97)",
       "Address already in use (os error 98)",
       "Cannot assign requested address (os error 99)",
       "Network is down (os error 100)",
       "Network is unreachable (os error 101)",
       "Network dropped connection on reset (os error 102)",
       "Software caused connection abort (os error 103)",
       "Connection reset by peer (os error 104)",
       "No buffer space available (os error 105)",
       "Transport endpoint is already connected (os error 106)",
       "Transport endpoint is not connected (os error 107)",
       "Cannot send after transport endpoint shutdown (os error 108)",
       "Too many references: cannot splice (os error 109)",
       "Connection timed out (os error 110)",
       "Connection refused (os error 111)",
       "Host is down (os error 112)",
       "No route to host (os error 113)",
       "Operation already in progress (os error 114)",
       "Operation now in progress (os error 115)",
       "Stale file handle (os error 116)",
       "Structure needs cleaning (os error 117)",
       "Not a XENIX named type file (os error 118)",
       "No XENIX semaphores available (os error 119)",
       "Is a named type file (os error 120)",
       "Remote I/O error (os error 121)",
       "Disk quota exceeded (os error 122)",
       "No medium found (os error 123)",
       "Wrong medium type (os error 124)",
       "Operation canceled (os error 125)",
       "Required key not available (os error 126)",
       "Key has expired (os error 127)",
       "Key has been revoked (os error 128)",
       "Key was rejected by service (os error 129)",
       "Owner died (os error 130)",
       "State not recoverable (os error 131)",
       "Operation not possible due to RF-kill (os error 132)",
       "Memory page has hardware error (os error 133)"
    >>

\* The loop of lines 52-54: send_to for every address in order; the first
\* failure ends the loop and is returned. fail_at is the address at which
\* send_to fails for another reason than the size of the packet (0: at
\* none), with the error fail_err, whichever the system returns ("" when at
\* none). A packet above MaxSendLength fails at the first address with
\* EMSGSIZE whatever the address is; a packet above MaxDatagram fails at the
\* first address, with the error of the address when that one fails, with
\* EMSGSIZE otherwise.
SendToAll(packet, addrs, fail_at, fail_err) ==
    LET too_long == Len(packet) > MaxDatagram
        by_addr == fail_at # 0 /\ Len(packet) <= MaxSendLength
                   /\ (too_long => fail_at = 1)
        stop == IF by_addr THEN fail_at ELSE IF too_long THEN 1 ELSE 0
        fails == stop \in 1..Len(addrs)
        reached == IF fails THEN stop - 1 ELSE Len(addrs)
    IN  [ok |-> ~fails,
         err |-> IF ~fails THEN ""
                 ELSE IF by_addr THEN fail_err
                 ELSE OsErrors[90],
         sent |-> [a \in 1..reached |-> [addr |-> addrs[a], packet |-> packet]]]

\* A flush that resets the frame buffer without carrying the overflow over.
UnicastFlushDropsTail(frame_buffer, frame_size, universe, addrs, fail_at, fail_err) ==
    IF Len(frame_buffer) < frame_size
    THEN [ok |-> TRUE, err |-> "", frame_buffer |-> frame_buffer,
          built |-> FALSE, packet |-> <<>>, sent |-> <<>>]
    ELSE LET head == SubSeq(frame_buffer, 1, frame_size)
             res == ArtDmxPacket(head, universe)
             snd == SendToAll(res.packet, addrs, fail_at, fail_err)
         IN  IF ~res.ok
             THEN [ok |-> FALSE, err |-> res.err, frame_buffer |-> head,
                   built |-> TRUE, packet |-> res.packet, sent |-> <<>>]
             ELSE [ok |-> snd.ok, err |-> snd.err, frame_buffer |-> <<>>,
                   built |-> TRUE, packet |-> res.packet, sent |-> snd.sent]

\* Unicast::flush (lines 44-56) on a frame buffer: the frame buffer it leaves,
\* the packet buffer, the datagrams sent and the result. The frame buffer is
\* replaced by the overflow (line 51) before the packet is sent, so a failed
\* send_to loses the frame.
UnicastFlushSend(frame_buffer, frame_size, universe, addrs, fail_at, fail_err) ==
    IF Len(frame_buffer) < frame_size
    THEN [ok |-> TRUE, err |-> "", frame_buffer |-> frame_buffer,
          built |-> FALSE, packet |-> <<>>, sent |-> <<>>]
    ELSE LET head == SubSeq(frame_buffer, 1, frame_size)
             new_buf == SubSeq(frame_buffer, frame_size + 1, Len(frame_buffer))
             res == ArtDmxPacket(head, universe)
             snd == SendToAll(res.packet, addrs, fail_at, fail_err)
         IN  IF ~res.ok
             THEN [ok |-> FALSE, err |-> res.err, frame_buffer |-> head,
                   built |-> TRUE, packet |-> res.packet, sent |-> <<>>]
             ELSE [ok |-> snd.ok, err |-> snd.err, frame_buffer |-> new_buf,
                   built |-> TRUE, packet |-> res.packet, sent |-> snd.sent]

\* Unicast::flush when send_to fails for no other reason than the size of
\* the packet.
UnicastFlush(frame_buffer, frame_size, universe, addrs) ==
    UnicastFlushSend(frame_buffer, frame_size, universe, addrs, 0, "")

\* The failures of send_to a call is taken with: none, or one at an address
\* that reaches the caller as the error of the call.
SendFails(f, fail_at, fail_err) ==
    IF fail_at = 0 THEN fail_err = ""
    ELSE fail_err # "" /\ ~f.ok /\ f.err = fail_err

NoWrite == [state |-> "none", written |-> 0, err |-> ""]

\* Unicast::to (lines 23-33): empty buffers. Every universe is taken with
\* frames of one byte, 0x1234 with the other sizes; the small frames go to one
\* address and to two, the large ones to one.
ArtnetInit ==
    /\ an_frame_size \in SmallFrameSizes \cup LargeFrameSizes
    /\ an_universe \in (IF an_frame_size = 1 THEN Universes ELSE {4660})
    /\ an_addrs \in (IF an_frame_size \in LargeFrameSizes THEN {<<"a">>}
                    ELSE {<<"a">>, <<"a", "b">>})
    /\ an_frame_buffer = <<>>
    /\ an_written = 0
    /\ an_packet = <<>>
    /\ an_sent = <<>>
    /\ an_ret = NoWrite
    /\ an_failed = FALSE

ArtnetIdle ==
    /\ an_universe = 0
    /\ an_frame_size = 1
    /\ an_addrs = <<>>
    /\ an_frame_buffer = <<>>
    /\ an_written = 0
    /\ an_packet = <<>>
    /\ an_sent = <<>>
    /\ an_ret = NoWrite
    /\ an_failed = FALSE

\* Unicast::write (lines 38-42) with the next n bytes: they are appended to
\* the frame buffer, then flush runs, and its error is the error of write.
UnicastWrite(n, fail_at, fail_err) ==
    /\ an_written + n <= WriteBudget(an_frame_size)
    /\ \E f \in {UnicastFlushSend(an_frame_buffer \o ArtnetBytes(an_written + 1, n),
                                  an_frame_size, an_universe, an_addrs, fail_at,
                                  fail_err)} :
           /\ SendFails(f, fail_at, fail_err)
           /\ an_frame_buffer' = f.frame_buffer
           /\ an_written' = an_written + n
           /\ an_packet' = IF f.built THEN f.packet ELSE an_packet
           /\ an_sent' = an_sent \o f.sent
           /\ an_ret' = IF f.ok THEN [state |-> "Ok", written |-> n, err |-> ""]
                        ELSE [state |-> "Err", written |-> 0, err |-> f.err]
           /\ an_failed' = (an_failed \/ ~f.ok)
    /\ UNCHANGED <<an_universe, an_frame_size, an_addrs>>
    /\ UNCHANGED outsideArtnet

\* Unicast::flush (lines 44-56) called on its own, as io::Write::flush.
UnicastFlushCall(fail_at, fail_err) ==
    /\ \E f \in {UnicastFlushSend(an_frame_buffer, an_frame_size, an_universe,
                                  an_addrs, fail_at, fail_err)} :
           /\ SendFails(f, fail_at, fail_err)
           /\ an_frame_buffer' = f.frame_buffer
           /\ an_packet' = IF f.built THEN f.packet ELSE an_packet
           /\ an_sent' = an_sent \o f.sent
           /\ an_ret' = IF f.ok THEN [state |-> "Ok", written |-> 0, err |-> ""]
                        ELSE [state |-> "Err", written |-> 0, err |-> f.err]
           /\ an_failed' = (an_failed \/ ~f.ok)
    /\ UNCHANGED <<an_universe, an_frame_size, an_addrs, an_written>>
    /\ UNCHANGED outsideArtnet

\* The errors a failing send_to returns at address fail_at: whichever error
\* of the system in any call, whatever the frame size and whatever the calls
\* before returned ("" when it fails at none).
SendErrors(fail_at) ==
    IF fail_at = 0 THEN {""} ELSE {OsErrors[code] : code \in DOMAIN OsErrors}

\* The addresses at which send_to can fail for another reason than the size
\* of the packet, as SendToAll has it (0: at none), in a flush of a frame
\* buffer of pending bytes: none when the buffer holds no whole frame (line
\* 45) or art_dmx_packet refuses it, so that send_to is not called, and none
\* when the size of the packet fails first.
FailPlaces(frame_size, addrs, pending) ==
    LET packet_len == Len(ArtDmxHeader(0)) + 2 + frame_size
    IN  IF pending < frame_size THEN {0}
        ELSE IF frame_size >= MaxDmxLength \/ packet_len > MaxSendLength THEN {0}
        ELSE IF packet_len > MaxDatagram THEN {0, 1} \cap (0..Len(addrs))
        ELSE 0..Len(addrs)

ArtnetNext ==
    \/ \E n \in ArtnetChunks(an_frame_size) :
           \E fail_at \in FailPlaces(an_frame_size, an_addrs, Len(an_frame_buffer) + n) :
               \E fail_err \in SendErrors(fail_at) : UnicastWrite(n, fail_at, fail_err)
    \/ \E fail_at \in FailPlaces(an_frame_size, an_addrs, Len(an_frame_buffer)) :
           \E fail_err \in SendErrors(fail_at) : UnicastFlushCall(fail_at, fail_err)

(***************************************************************************)
(* The HUB75 output: from_command, Hub75::output_frame, Worker::run and    *)
(* Worker::refresh_display (src/src/device/hub75.rs).                      *)
(***************************************************************************)
\* The largest matrix, the most pins of a kind, the most grayscale
\* refreshes per frame, the most frames and the most errors of one run.
MaxHubW == 2
MaxHubH == 4
MaxLevelPins == 2
MaxColourPins == 2
MaxPwm == 2
MaxHubFrames == 2
MaxHubErrs == 1

\* The bound of the frame channel: mpsc::sync_channel(0) (line 145).
FrameChannelBound == 0

\* scan_height (line 50): 1 << level_select.len().
ScanHeight(num_level_select) == Pow2(num_level_select)

\* scan_interleaved (lines 51-52): the rows in the order they are clocked out.
ScanInterleaved(num_level_select) ==
    [j \in 1..ScanHeight(num_level_select) |->
        BitOr((j - 1) * 2, (j - 1) \div Pow2(num_level_select - 1))
            % ScanHeight(num_level_select)]

\* The indexes into cur_frame that one refresh_display reads (line 57).
RefreshIndexes(width, num_level_select, lines) ==
    LET scan_height == ScanHeight(num_level_select)
        rows == ScanInterleaved(num_level_select)
    IN  {(rows[j] + line * scan_height) * width + x :
            j \in 1..scan_height, x \in 0..(width - 1), line \in 0..(lines - 1)}

\* What from_command depends on besides the numbers: whether --geometry
\* (or LEDCAT_GEOMETRY) is absent, one number or WxH, whether the pin options hold Strings, as get_one::<String> (line 135)
\* needs, and the first pin option of which a pin cannot be opened.
\* command() (lines 103-129) stores the pin options as () and u32.
HubArgs ==
    [geometry : {"none", "1d", "2d"}, strings : BOOLEAN,
     bad_pin : {"none", "level-select", "red", "green", "blue", "clock", "latch",
                "output-enable"}]
CommandArgs == [geometry |-> "2d", strings |-> FALSE, bad_pin |-> "none"]

\* from_command (lines 131-183), in the order of the code: dimensions_2d,
\* then the fields of the Worker: the level-select pins and the check of
\* the height, the red, green and blue pins and the check of their
\* numbers, the clock, latch and output-enable pins. The first pins() call
\* panics on pin options that do not hold Strings. The worker's rgb has one
\* entry per red pin. pin_err is the error the system returns for the pin
\* that cannot be opened. The message of dimensions_2d is written without the
\* backquotes it has around WxH, which a string here cannot hold.
FromCommand(args, pin_err, height, level_select, red, green, blue) ==
    IF args.geometry = "none"
    THEN "Please set the frame size with --geometry"
    ELSE IF args.geometry = "1d"
    THEN "This device requires 2D geometry, use WxH as argument to --geometry"
    ELSE IF ~args.strings
    THEN "panic"
    ELSE IF args.bad_pin = "level-select"
    THEN pin_err
    ELSE IF height % Pow2(level_select) # 0
    THEN "The height must be a multiple of 2^len(level-select-pins)"
    ELSE IF args.bad_pin \in {"red", "green", "blue"}
    THEN pin_err
    ELSE IF red # green \/ green # blue
    THEN "The number of red, green and blue pins must be all equal"
    ELSE IF args.bad_pin \in {"clock", "latch", "output-enable"}
    THEN pin_err
    ELSE "Ok"

HubInit ==
    /\ hb_width \in 1..MaxHubW
    /\ hb_height \in 1..MaxHubH
    /\ hb_level_select \in 1..MaxLevelPins
    /\ hb_red \in 1..MaxColourPins
    /\ hb_green \in 1..MaxColourPins
    /\ hb_blue \in 1..MaxColourPins
    /\ hb_pwm_cycles \in 0..MaxPwm
    /\ hb_args \in HubArgs
    /\ hb_built = "pending"
    /\ hb_caller = "idle"
    /\ hb_offer = 0
    /\ hb_queue = <<>>
    /\ hb_frames = 0
    /\ hb_worker = "none"
    /\ hb_cycle = 0
    /\ hb_cur_frame = 0
    /\ hb_err_queue = <<>>
    /\ hb_ret = "none"

HubIdle ==
    /\ hb_width = 1
    /\ hb_height = 1
    /\ hb_level_select = 1
    /\ hb_red = 1
    /\ hb_green = 1
    /\ hb_blue = 1
    /\ hb_pwm_cycles = 0
    /\ hb_args = CommandArgs
    /\ hb_built = "pending"
    /\ hb_caller = "idle"
    /\ hb_offer = 0
    /\ hb_queue = <<>>
    /\ hb_frames = 0
    /\ hb_worker = "none"
    /\ hb_cycle = 0
    /\ hb_cur_frame = 0
    /\ hb_err_queue = <<>>
    /\ hb_ret = "none"

\* from_command: a panic, an error, or the worker thread is spawned with a
\* black cur_frame of width * height pixels. A pin that cannot be opened
\* fails with whichever error the system returns.
HubFromCommand ==
    /\ hb_built = "pending"
    /\ \E pin_err \in {OsErrors[code] : code \in DOMAIN OsErrors} :
          hb_built' = FromCommand(hb_args, pin_err, hb_height, hb_level_select, hb_red,
                                  hb_green, hb_blue)
    /\ hb_worker' = IF hb_built' = "Ok" THEN "recv" ELSE "none"
    /\ UNCHANGED <<hb_width, hb_height, hb_level_select, hb_red, hb_green, hb_blue,
                   hb_pwm_cycles, hb_args, hb_caller, hb_offer, hb_queue, hb_frames, hb_cycle,
                   hb_cur_frame, hb_err_queue, hb_ret>>
    /\ UNCHANGED outsideHub

\* Hub75::output_frame up to the point where send returns or blocks (lines
\* 93-98): an error the worker reported, or the worker's death, is returned;
\* otherwise the frame is sent.  A send on a full channel (a channel of bound
\* 0 is always full) blocks until the receiver takes the message.
OutputFrameCall ==
    /\ hb_built = "Ok"
    /\ hb_caller = "idle"
    /\ hb_frames < MaxHubFrames
    /\ hb_frames' = hb_frames + 1
    /\ IF hb_err_queue # <<>>
       THEN /\ hb_err_queue' = Tail(hb_err_queue)
            /\ hb_ret' = "Err"
            /\ UNCHANGED <<hb_caller, hb_offer, hb_queue>>
       ELSE IF hb_worker = "panic"
       THEN /\ hb_ret' = "Err"
            /\ UNCHANGED <<hb_caller, hb_offer, hb_queue, hb_err_queue>>
       ELSE IF Len(hb_queue) < FrameChannelBound
       THEN /\ hb_queue' = Append(hb_queue, hb_frames')
            /\ hb_ret' = "Ok"
            /\ UNCHANGED <<hb_caller, hb_offer, hb_err_queue>>
       ELSE /\ hb_caller' = "send"
            /\ hb_offer' = hb_frames'
            /\ UNCHANGED <<hb_queue, hb_err_queue, hb_ret>>
    /\ UNCHANGED <<hb_width, hb_height, hb_level_select, hb_red, hb_green, hb_blue,
                   hb_pwm_cycles, hb_args, hb_built, hb_worker, hb_cycle, hb_cur_frame>>
    /\ UNCHANGED outsideHub

\* The blocked send returns (line 98): Ok once the worker has taken the
\* frame, an error when the worker is gone.
OutputFrameReturn ==
    /\ hb_caller = "send"
    /\ hb_offer = 0 \/ hb_worker = "panic"
    /\ hb_caller' = "idle"
    /\ hb_ret' = IF hb_offer = 0 THEN "Ok" ELSE "Err"
    /\ hb_offer' = 0
    /\ UNCHANGED <<hb_width, hb_height, hb_level_select, hb_red, hb_green, hb_blue,
                   hb_pwm_cycles, hb_args, hb_built, hb_queue, hb_frames, hb_worker, hb_cycle,
                   hb_cur_frame, hb_err_queue>>
    /\ UNCHANGED outsideHub

\* Worker::run, lines 30-37: try_recv takes a buffered frame, or the frame
\* of a sender blocked in send, or finds the channel empty; then the loop
\* of refreshes starts.
WorkerTryRecv ==
    /\ hb_worker = "recv"
    /\ IF hb_queue # <<>>
       THEN /\ hb_cur_frame' = Head(hb_queue)
            /\ hb_queue' = IF hb_offer # 0 THEN Append(Tail(hb_queue), hb_offer)
                           ELSE Tail(hb_queue)
            /\ hb_offer' = 0
       ELSE IF hb_offer # 0
       THEN /\ hb_cur_frame' = hb_offer
            /\ hb_offer' = 0
            /\ UNCHANGED hb_queue
       ELSE UNCHANGED <<hb_cur_frame, hb_offer, hb_queue>>
    /\ hb_cycle' = hb_pwm_cycles
    /\ hb_worker' = IF hb_pwm_cycles = 0 THEN "recv" ELSE "refresh"
    /\ UNCHANGED <<hb_width, hb_height, hb_level_select, hb_red, hb_green, hb_blue,
                   hb_pwm_cycles, hb_args, hb_built, hb_caller, hb_frames, hb_err_queue, hb_ret>>
    /\ UNCHANGED outsideHub

\* One round of the loop of lines 38-44: refresh_display panics on an index
\* outside cur_frame, fails when a GPIO write fails (the error is sent on
\* the error channel) or completes.
WorkerRefresh(gpio_fails) ==
    /\ hb_worker = "refresh"
    /\ IF gpio_fails
       THEN /\ Len(hb_err_queue) < MaxHubErrs
            /\ hb_err_queue' = Append(hb_err_queue, "gpio")
            /\ hb_cycle' = hb_cycle - 1
            /\ hb_worker' = IF hb_cycle' = 0 THEN "recv" ELSE "refresh"
       ELSE IF \E idx \in RefreshIndexes(hb_width, hb_level_select, hb_red) :
                   idx >= hb_width * hb_height
       THEN /\ hb_worker' = "panic"
            /\ UNCHANGED <<hb_cycle, hb_err_queue>>
       ELSE /\ hb_cycle' = hb_cycle - 1
            /\ hb_worker' = IF hb_cycle' = 0 THEN "recv" ELSE "refresh"
            /\ UNCHANGED hb_err_queue
    /\ UNCHANGED <<hb_width, hb_height, hb_level_select, hb_red, hb_green, hb_blue,
                   hb_pwm_cycles, hb_args, hb_built, hb_caller, hb_offer, hb_queue, hb_frames,
                   hb_cur_frame, hb_ret>>
    /\ UNCHANGED outsideHub

HubNext ==
    \/ HubFromCommand
    \/ OutputFrameCall
    \/ OutputFrameReturn
    \/ WorkerTryRecv
    \/ \E gpio_fails \in BOOLEAN : WorkerRefresh(gpio_fails)

(***************************************************************************)
(* The clear timeout: the --clear-timeout argument (src/src/main.rs, lines *)
(* 58-64), its conversion to a Duration (lines 272-278) and to the poll    *)
(* timeout (src/src/input/select.rs, lines 114-118). A u32 is a pair       *)
(* <<hi, lo>> of 16-bit halves.                                            *)
(***************************************************************************)
\* The largest value of the run of small arguments.
MaxMs == 100

\* The decimal digits of n >= 1.
RECURSIVE Digits(_)
Digits(n) == IF n < 10 THEN <<n>> ELSE Append(Digits(n \div 10), n % 10)

\* Arguments the validator ^[1-9]\d*$ accepts: small ones, values around
\* the limits of the conversions, and values around u32::MAX.
ClearTimeoutArgs ==
    {Digits(n) : n \in 1..MaxMs}
    \cup {Digits(n) : n \in {999, 1000, 4294, 4295, 5000, 60000, 2147483647}}
    \cup {<<4, 2, 9, 4, 9, 6, 7, 2, 9, 5>>, <<4, 2, 9, 4, 9, 6, 7, 2, 9, 6>>,
          <<9, 9, 9, 9, 9, 9, 9, 9, 9, 9, 9>>}

\* str::parse::<u32> from digit k on: the value, or an error on overflow.
RECURSIVE ParseU32(_, _, _)
ParseU32(digits, k, acc) ==
    IF k > Len(digits) THEN [ok |-> TRUE, value |-> acc]
    ELSE LET lo == acc[2] * 10 + digits[k]
             hi == acc[1] * 10 + lo \div 65536
         IN  IF hi >= 65536 THEN [ok |-> FALSE, value |-> <<0, 0>>]
             ELSE ParseU32(digits, k + 1, <<hi, lo % 65536>>)

\* a * c on u32, for c < 2^31: the wrapped product and whether it overflowed.
MulU32(a, c) ==
    LET ch == c \div 65536
        cl == c % 65536
        p0 == a[2] * cl
        p1 == a[1] * cl + a[2] * ch + p0 \div 65536
    IN  [overflow |-> a[1] * ch # 0 \/ p1 >= 65536,
         value |-> <<p1 % 65536, p0 % 65536>>]

\* a <= b and a - b on u32 (for b <= a).
LeU32(a, b) == a[1] < b[1] \/ (a[1] = b[1] /\ a[2] <= b[2])
SubU32(a, b) ==
    IF a[2] >= b[2] THEN <<a[1] - b[1], a[2] - b[2]>>
    ELSE <<a[1] - b[1] - 1, a[2] + 65536 - b[2]>>

\* Duration::new(0, nanos): whole seconds of nanos are carried into secs.
DurationNew(nanos) ==
    LET fits(q) == LET m == MulU32(<<0, q>>, 1000000000)
                   IN  ~m.overflow /\ LeU32(m.value, nanos)
        secs == CHOOSE q \in 0..4 : fits(q) /\ (q = 4 \/ ~fits(q + 1))
        rest == SubU32(nanos, MulU32(<<0, secs>>, 1000000000).value)
    IN  [secs |-> secs, nanos |-> rest[1] * 65536 + rest[2]]

\* Reader::read, lines 114-118: as_secs() as i32 * 1_000 +
\* subsec_nanos() as i32 / 1_000_000.
PollTimeout(t) == t.secs * 1000 + t.nanos \div 1000000

NoDuration == [secs |-> 0, nanos |-> 0]

TimeoutInit ==
    /\ ct_arg \in ClearTimeoutArgs
    /\ ct_overflow_checks \in BOOLEAN
    /\ ct_state = "args"
    /\ ct_duration = NoDuration
    /\ ct_poll = -1

TimeoutIdle ==
    /\ ct_arg = <<1>>
    /\ ct_overflow_checks = FALSE
    /\ ct_state = "args"
    /\ ct_duration = NoDuration
    /\ ct_poll = -1

\* main, lines 273-277: v.parse::<u32>().unwrap() panics on a value above
\* u32::MAX; ms * 1_000_000 is a u32 product, which panics on overflow in a
\* build with overflow checks and wraps in one without.
MainClearTimeout ==
    /\ ct_state = "args"
    /\ LET ms == ParseU32(ct_arg, 1, <<0, 0>>)
           nanos == MulU32(ms.value, 1000000)
       IN  IF ~ms.ok \/ (nanos.overflow /\ ct_overflow_checks)
           THEN /\ ct_state' = "panic"
                /\ UNCHANGED ct_duration
           ELSE /\ ct_state' = "set"
                /\ ct_duration' = DurationNew(nanos.value)
    /\ UNCHANGED <<ct_arg, ct_overflow_checks, ct_poll>>
    /\ UNCHANGED outsideTimeout

\* Reader::read computes the poll timeout from the Duration.
ReaderPollTimeout ==
    /\ ct_state = "set"
    /\ ct_state' = "polled"
    /\ ct_poll' = PollTimeout(ct_duration)
    /\ UNCHANGED <<ct_arg, ct_overflow_checks, ct_duration>>
    /\ UNCHANGED outsideTimeout

TimeoutNext == MainClearTimeout \/ ReaderPollTimeout

(***************************************************************************)
(* The Art-Net list file: ListFile::new and its watcher thread             *)
(* (src/src/driver/artnet/target.rs, lines 35-86).                         *)
(***************************************************************************)
\* The most lines of a file and the most versions of it in one run.
MaxLines == 3
MaxFileVersions == 2

\* The Art-Net port, given to a line that holds an IP address only.
PORT == 6454

\* Lines of the file: "10.0.0.1:6454", "10.0.0.1", "10.0.0.2:6454" and one
\* that parses as neither.
FileLines ==
    {[kind |-> "addr", ip |-> 1, port |-> 6454], [kind |-> "ip", ip |-> 1, port |-> 0],
     [kind |-> "addr", ip |-> 2, port |-> 6454], [kind |-> "junk", ip |-> 0, port |-> 0]}

FileContents == UNION {[1..n -> FileLines] : n \in 0..MaxLines}

\* Lines 69-74: a socket address, else an IP address with PORT, else nothing.
ParseLine(line) ==
    IF line.kind = "addr" THEN <<[ip |-> line.ip, port |-> line.port]>>
    ELSE IF line.kind = "ip" THEN <<[ip |-> line.ip, port |-> PORT]>>
    ELSE <<>>

RECURSIVE ParseLines(_)
ParseLines(lines) ==
    IF lines = <<>> THEN <<>>
    ELSE ParseLines(SubSeq(lines, 1, Len(lines) - 1)) \o ParseLine(lines[Len(lines)])

\* Vec::dedup: of consecutive equal elements only the first is kept.
RECURSIVE Dedup(_)
Dedup(v) ==
    IF v = <<>> THEN <<>>
    ELSE LET init == Dedup(SubSeq(v, 1, Len(v) - 1))
             last == v[Len(v)]
         IN  IF init # <<>> /\ init[Len(init)] = last THEN init ELSE Append(init, last)

ListFileInit ==
    /\ lf_mtime = 1
    /\ lf_lines \in FileContents
    /\ lf_statable \in BOOLEAN
    /\ lf_openable \in BOOLEAN
    /\ lf_sender = "alive"
    /\ lf_thread = "loop"
    /\ lf_prev_mod_time = 0
    /\ lf_cache = <<>>

ListFileIdle ==
    /\ lf_mtime = 1
    /\ lf_lines = <<>>
    /\ lf_statable = TRUE
    /\ lf_openable = TRUE
    /\ lf_sender = "alive"
    /\ lf_thread = "exited"
    /\ lf_prev_mod_time = 0
    /\ lf_cache = <<>>

\* Lines 51-56 and, when nothing is to reload, on to the sleep of line 80: a
\* failed metadata or modified() is `continue`.
WatcherStat ==
    /\ lf_thread = "loop"
    /\ IF ~lf_statable
       THEN /\ lf_thread' = "retry"
            /\ UNCHANGED lf_prev_mod_time
       ELSE /\ lf_prev_mod_time' = lf_mtime
            /\ lf_thread' = IF lf_prev_mod_time # lf_mtime THEN "reload" ELSE "sleep"
    /\ UNCHANGED <<lf_mtime, lf_lines, lf_statable, lf_openable, lf_sender, lf_cache>>
    /\ UNCHANGED outsideListFile

\* Lines 57-78: upgrade the weak reference or return; under the write lock
\* clear the list, open the file (`continue` when that fails), parse the
\* lines, extend and dedup.
WatcherReload ==
    /\ lf_thread = "reload"
    /\ IF lf_sender = "dropped"
       THEN /\ lf_thread' = "exited"
            /\ UNCHANGED lf_cache
       ELSE IF ~(lf_statable /\ lf_openable)
       THEN /\ lf_cache' = <<>>
            /\ lf_thread' = "retry"
       ELSE /\ lf_cache' = Dedup(ParseLines(lf_lines))
            /\ lf_thread' = "sleep"
    /\ UNCHANGED <<lf_mtime, lf_lines, lf_statable, lf_openable, lf_sender, lf_prev_mod_time>>
    /\ UNCHANGED outsideListFile

\* Lines 42-47, try_or_continue!: `continue` jumps to the top of the loop,
\* past the sleep of line 80.
WatcherContinue ==
    /\ lf_thread = "retry"
    /\ lf_thread' = "loop"
    /\ UNCHANGED <<lf_mtime, lf_lines, lf_statable, lf_openable, lf_sender,
                   lf_prev_mod_time, lf_cache>>
    /\ UNCHANGED outsideListFile

\* Line 80: the sleep of one second is over.
WatcherWake ==
    /\ lf_thread = "sleep"
    /\ lf_thread' = "loop"
    /\ UNCHANGED <<lf_mtime, lf_lines, lf_statable, lf_openable, lf_sender,
                   lf_prev_mod_time, lf_cache>>
    /\ UNCHANGED outsideListFile

\* The file is written: new lines and a new modification time.
FileWrite(lines) ==
    /\ lf_mtime < MaxFileVersions
    /\ lf_mtime' = lf_mtime + 1
    /\ lf_lines' = lines
    /\ UNCHANGED <<lf_statable, lf_openable, lf_sender, lf_thread, lf_prev_mod_time, lf_cache>>
    /\ UNCHANGED outsideListFile

\* The file or its directory becomes unreadable, or readable again.
FileAccess(statable, openable) ==
    /\ <<statable, openable>> # <<lf_statable, lf_openable>>
    /\ lf_statable' = statable
    /\ lf_openable' = openable
    /\ UNCHANGED <<lf_mtime, lf_lines, lf_sender, lf_thread, lf_prev_mod_time, lf_cache>>
    /\ UNCHANGED outsideListFile

\* The ListFile, and with it the only strong reference to the list, is dropped.
DropSender ==
    /\ lf_sender = "alive"
    /\ lf_sender' = "dropped"
    /\ UNCHANGED <<lf_mtime, lf_lines, lf_statable, lf_openable, lf_thread,
                   lf_prev_mod_time, lf_cache>>
    /\ UNCHANGED outsideListFile

ListFileNext ==
    \/ WatcherStat
    \/ WatcherReload
    \/ WatcherContinue
    \/ WatcherWake
    \/ \E lines \in FileContents : FileWrite(lines)
    \/ \E statable \in BOOLEAN, openable \in BOOLEAN : FileAccess(statable, openable)
    \/ DropSender

(***************************************************************************)
(* The Flux-LED bulbs: Bulb and Display (src/src/device/fluxled/bulb.rs).  *)
(***************************************************************************)
\* The number of bulbs and the most frames of one run.
NumBulbs == 2
MaxFluxFrames == 2

Bulbs == 1..NumBulbs

\* Frames for the bulbs: every value of each channel, and the extremes.
FluxFrames ==
    {[k \in Bulbs |-> SweepPixel((v + 40 * k) % 256)] : v \in Bytes}
    \cup {[k \in Bulbs |-> <<255, 255, 255>>], [k \in Bulbs |-> <<0, 0, 0>>],
          [k \in Bulbs |-> <<10 * k, 20 * k, 30 * k>>]}

\* The bytes of a frame, as the output stage writes them.
FluxFrameBytes(frame) == FlatMap(frame)

\* A checksum that is not cut to one byte.
FluxChecksumWide(data) == SumTo(data, Len(data))

\* Line 42: the sum of the bytes as u32, cut to u8.
FluxChecksum(data) == SumTo(data, Len(data)) % 256

\* What the network calls of one set_constant_color do: all succeed,
\* TcpStream::connect (or set_read_timeout) fails, or write_all fails.
NetUp == "ok"
Outcomes == {"ok", "connect_err", "send_err"}

\* Nothing was asked of the bulb.
NoCommand == [connected |-> FALSE, sent |-> <<>>, rs |-> "Ok"]

\* Bulb::set_constant_color (lines 31-38) through send_with_checksum (lines
\* 40-52) and connection (lines 20-29): the connection it leaves, whether
\* it called connect, the bytes the bulb received and the result.
SetConstantColor(conn, pix, outcome) ==
    LET data == <<49, pix[1], pix[2], pix[3], 0, 0, 15>>
        buf == Append(data, FluxChecksum(data))
    IN  IF ~conn /\ outcome = "connect_err"
        THEN [conn |-> FALSE, connected |-> TRUE, sent |-> <<>>, rs |-> "Ok"]
        ELSE IF outcome # "send_err"
        THEN [conn |-> TRUE, connected |-> ~conn, sent |-> buf, rs |-> "Ok"]
        ELSE [conn |-> FALSE, connected |-> ~conn, sent |-> <<>>, rs |-> "Err"]

\* The chunk of three bytes of bulb k.
FluxChunk(buf, k) == <<buf[3 * k - 2], buf[3 * k - 1], buf[3 * k]>>

\* A flush that returns the first error of a bulb and leaves the bulbs
\* after it alone.
DisplayFlushPropagates(conn, buf, outcome) ==
    LET each == [k \in Bulbs |-> SetConstantColor(conn[k], FluxChunk(buf, k), outcome[k])]
        failed == {k \in Bulbs : each[k].rs = "Err"}
        reached(k) == \A j \in failed : k <= j
    IN  [conn |-> [k \in Bulbs |-> IF reached(k) THEN each[k].conn ELSE conn[k]],
         last |-> [k \in Bulbs |->
                      IF reached(k)
                      THEN [connected |-> each[k].connected, sent |-> each[k].sent,
                            rs |-> each[k].rs]
                      ELSE NoCommand],
         buf |-> IF failed = {} THEN <<>> ELSE buf,
         rs |-> IF failed = {} THEN "Ok" ELSE "Err"]

\* Display::flush (lines 70-80): every bulb gets its chunk, the result of
\* set_constant_color is dropped, the buffer is cleared.
DisplayFlush(conn, buf, outcome) ==
    LET each == [k \in Bulbs |-> SetConstantColor(conn[k], FluxChunk(buf, k), outcome[k])]
    IN  [conn |-> [k \in Bulbs |-> each[k].conn],
         last |-> [k \in Bulbs |->
                      [connected |-> each[k].connected, sent |-> each[k].sent,
                       rs |-> each[k].rs]],
         buf |-> <<>>,
         rs |-> "Ok"]

\* Bulb::new (lines 13-18) tries a first connection and ignores its failure.
FluxInit ==
    /\ fx_frame \in FluxFrames
    /\ fx_conn \in [Bulbs -> BOOLEAN]
    /\ fx_buf = <<>>
    /\ fx_outcome = [k \in Bulbs |-> NetUp]
    /\ fx_last = [k \in Bulbs |-> NoCommand]
    /\ fx_frames = 0
    /\ fx_ret = "none"

FluxIdle ==
    /\ fx_frame = <<>>
    /\ fx_conn = <<>>
    /\ fx_buf = <<>>
    /\ fx_outcome = <<>>
    /\ fx_last = <<>>
    /\ fx_frames = 0
    /\ fx_ret = "none"

\* Display::write (lines 61-68) with the bytes of one frame: they are
\* appended to buf and, buf holding a pixel for every bulb, flush runs.
DisplayWrite(outcome) ==
    /\ fx_frames < MaxFluxFrames
    /\ fx_ret # "Err"
    /\ \A k \in Bulbs : outcome[k] = "connect_err" => ~fx_conn[k]
    /\ LET need == NumBulbs * 3
           buf == fx_buf \o FluxFrameBytes(fx_frame)
           f == IF Len(buf) >= need THEN DisplayFlush(fx_conn, buf, outcome)
                ELSE [conn |-> fx_conn, last |-> fx_last, buf |-> buf, rs |-> "Ok"]
       IN  /\ fx_conn' = f.conn
           /\ fx_last' = f.last
           /\ fx_buf' = f.buf
           /\ fx_ret' = f.rs
    /\ fx_outcome' = outcome
    /\ fx_frames' = fx_frames + 1
    /\ UNCHANGED fx_frame
    /\ UNCHANGED outsideFlux

FluxNext == \E outcome \in [Bulbs -> Outcomes] : DisplayWrite(outcome)

(***************************************************************************)
(* The GPIO lines of the HUB75 worker: Worker::run, refresh_display and    *)
(* GpioOutBuffer (src/src/device/hub75.rs, lines 27-79 and 191-223), one   *)
(* set_value call at a time.                                               *)
(***************************************************************************)
\* The most GPIO writes that fail in one run.
MaxGpioFails == 2

\* Worker::run, lines 39-40: a = 255 / (pwm_cycles + 1), min_val = 255 - i * a - a.
MinVal(pwm_cycles, i) ==
    LET a == 255 \div (pwm_cycles + 1)
    IN  255 - i * a - a

\* The pins: clock, output enable, latch, the level-select pins and, per
\* group, the r, g and b data pins.
CLK == <<"clock", 0, 0>>
OE == <<"oe", 0, 0>>
LAT == <<"latch", 0, 0>>
GpioPins(nls, lines) ==
    {CLK, OE, LAT}
    \cup {<<"ls", i, 0>> : i \in 0..(nls - 1)}
    \cup {<<"rgb", line, c>> : line \in 0..(lines - 1), c \in 1..3}

\* A data pin that is high only above the threshold.
DataPinValueStrict(channel, min_val) == IF channel > min_val THEN 1 ELSE 0

\* Lines 58-60: set_value(pix.r >= min_val).
DataPinValue(channel, min_val) == IF channel >= min_val THEN 1 ELSE 0

\* The calls of lines 54-65 for row y: per column the data pins of every
\* group, then the clock pulse.
RowColumns(k, y, width, nls, lines, frame, min_val) ==
    LET per == 3 * lines + 2
        x == (k - 1) \div per
        r == (k - 1) % per
    IN  IF r < 3 * lines
        THEN LET line == r \div 3
                 c == (r % 3) + 1
                 pix == frame[(y + line * ScanHeight(nls)) * width + x + 1]
             IN  [pin |-> <<"rgb", line, c>>, value |-> DataPinValue(pix[c], min_val)]
        ELSE [pin |-> CLK, value |-> IF r = 3 * lines THEN 1 ELSE 0]

\* The end of a row with the level-select pins set before output enable is
\* driven high.
RowTailSelectFirst(j, y, nls) ==
    IF j <= nls THEN [pin |-> <<"ls", j - 1, 0>>, value |-> (y \div Pow2(j - 1)) % 2]
    ELSE IF j = nls + 1 THEN [pin |-> OE, value |-> 1]
    ELSE IF j = nls + 2 THEN [pin |-> LAT, value |-> 1]
    ELSE IF j = nls + 3 THEN [pin |-> LAT, value |-> 0]
    ELSE [pin |-> OE, value |-> 0]

\* The calls of lines 66-76 for row y: output enable high, the level-select
\* pins ((y >> i) & 1), latch high, latch low, output enable low.
RowTail(j, y, nls) ==
    IF j = 1 THEN [pin |-> OE, value |-> 1]
    ELSE IF j <= nls + 1 THEN [pin |-> <<"ls", j - 2, 0>>, value |-> (y \div Pow2(j - 2)) % 2]
    ELSE IF j = nls + 2 THEN [pin |-> LAT, value |-> 1]
    ELSE IF j = nls + 3 THEN [pin |-> LAT, value |-> 0]
    ELSE [pin |-> OE, value |-> 0]

\* The number of set_value calls of one row, and the k-th of them.
RowLen(width, nls, lines) == width * (3 * lines + 2) + nls + 4
RowCall(k, y, width, nls, lines, frame, min_val) ==
    IF k <= width * (3 * lines + 2)
    THEN RowColumns(k, y, width, nls, lines, frame, min_val)
    ELSE RowTail(k - width * (3 * lines + 2), y, nls)

\* Channel values around the thresholds of the passes.
GpioChannels == <<0, 85, 128, 170, 255, 129, 84>>

\* Frames of n pixels.
GpioFrame(s, n) ==
    [j \in 1..n |-> <<GpioChannels[((s + j) % 7) + 1],
                      GpioChannels[((s + 2 * j + 1) % 7) + 1],
                      GpioChannels[((s + 3 * j + 2) % 7) + 1]>>]

\* A matrix whose height is the pin groups times the scan height, its pins
\* low as GpioOutBuffer::new assumes (lines 197-202).
GpioInit ==
    /\ gp_width \in 1..MaxHubW
    /\ gp_nls \in 1..MaxLevelPins
    /\ gp_lines \in {l \in 1..MaxColourPins : l * ScanHeight(gp_nls) <= MaxHubH}
    /\ gp_pwm_cycles \in 1..MaxPwm
    /\ gp_frame \in {GpioFrame(s, gp_width * gp_lines * ScanHeight(gp_nls)) : s \in 0..1}
    /\ gp_i = 0
    /\ gp_row = 1
    /\ gp_pc = 1
    /\ gp_pin = [p \in GpioPins(gp_nls, gp_lines) |-> 0]
    /\ gp_state = [p \in GpioPins(gp_nls, gp_lines) |-> 0]
    /\ gp_calls = <<>>
    /\ gp_fails = 0
    /\ gp_ret = "none"

GpioIdle ==
    /\ gp_width = 1
    /\ gp_nls = 1
    /\ gp_lines = 1
    /\ gp_pwm_cycles = 0
    /\ gp_frame = <<>>
    /\ gp_i = 0
    /\ gp_row = 1
    /\ gp_pc = 1
    /\ gp_pin = <<>>
    /\ gp_state = <<>>
    /\ gp_calls = <<>>
    /\ gp_fails = 0
    /\ gp_ret = "none"

\* What a call is logged as: the pin's kind and, for the clock, output
\* enable and latch, the value.
CallOf(op) ==
    [kind |-> op.pin[1], value |-> IF op.pin[1] \in {"rgb", "ls"} THEN -1 ELSE op.value]

\* The next set_value call of refresh_display, through GpioOutBuffer
\* (lines 206-221): a value the buffer holds already is not written; a write
\* that fails leaves the line and the buffer as they were and ends
\* refresh_display with the error, which Worker::run sends on and goes on
\* with the next pass; after the last call of the last row refresh_display
\* returns Ok.
GpioSetValue(fails) ==
    /\ gp_pwm_cycles > 0
    /\ LET y == ScanInterleaved(gp_nls)[gp_row]
           op == RowCall(gp_pc, y, gp_width, gp_nls, gp_lines, gp_frame,
                         MinVal(gp_pwm_cycles, gp_i))
           writes == gp_state[op.pin] # op.value
           calls == IF gp_pc = 1 THEN <<CallOf(op)>> ELSE Append(gp_calls, CallOf(op))
       IN  /\ fails => (writes /\ gp_fails < MaxGpioFails)
           /\ IF fails
              THEN /\ gp_ret' = "Err"
                   /\ gp_fails' = gp_fails + 1
                   /\ gp_i' = (gp_i + 1) % gp_pwm_cycles
                   /\ gp_row' = 1
                   /\ gp_pc' = 1
                   /\ gp_calls' = calls
                   /\ UNCHANGED <<gp_pin, gp_state>>
              ELSE /\ gp_pin' = IF writes THEN [gp_pin EXCEPT ![op.pin] = op.value] ELSE gp_pin
                   /\ gp_state' = IF writes THEN [gp_state EXCEPT ![op.pin] = op.value]
                                  ELSE gp_state
                   /\ gp_calls' = calls
                   /\ UNCHANGED gp_fails
                   /\ IF gp_pc < RowLen(gp_width, gp_nls, gp_lines)
                      THEN /\ gp_pc' = gp_pc + 1
                           /\ UNCHANGED <<gp_row, gp_i, gp_ret>>
                      ELSE IF gp_row < ScanHeight(gp_nls)
                      THEN /\ gp_pc' = 1
                           /\ gp_row' = gp_row + 1
                           /\ UNCHANGED <<gp_i, gp_ret>>
                      ELSE /\ gp_pc' = 1
                           /\ gp_row' = 1
                           /\ gp_i' = (gp_i + 1) % gp_pwm_cycles
                           /\ gp_ret' = "Ok"
    /\ UNCHANGED <<gp_width, gp_nls, gp_lines, gp_pwm_cycles, gp_frame>>
    /\ UNCHANGED outsideGpio

GpioNext == \E fails \in BOOLEAN : GpioSetValue(fails)

PipeNext ==
    \/ ReadFrame
    \/ ReadEof
    \/ ReadFail
    \/ ReadSend
    \/ TransformRecv
    \/ TransformSend
    \/ OutputRecv
    \/ OutputWrite
    \/ OutputFail
    \/ MainRecv
    \/ MainExit

\* pipe_frames is called with a reader that the pipeline sees only through
\* read_exact's results.
InitPipe ==
    /\ PipeInit /\ ReaderIdle /\ FrameIdle /\ DimIdle /\ TableIdle
    /\ CodecIdle /\ ArtnetIdle /\ HubIdle /\ TimeoutIdle /\ ListFileIdle /\ FluxIdle /\ GpioIdle

SpecPipe == InitPipe /\ [][PipeNext]_vars


ReaderNext ==
    \/ \E i \in Inputs, k \in 1..SwitchAfter : Write(i, k)
    \/ \E i \in Inputs : CloseWriter(i)
    \/ \E n \in ReadLens : ReadCall(n)
    \/ PollPass

InitReader ==
    /\ ReaderInit /\ PipeIdle /\ FrameIdle /\ DimIdle /\ TableIdle
    /\ CodecIdle /\ ArtnetIdle /\ HubIdle /\ TimeoutIdle /\ ListFileIdle /\ FluxIdle /\ GpioIdle

SpecReader == InitReader /\ [][ReaderNext]_vars

\* The reader on inputs whose reads may fail.
ReaderIONext ==
    \/ ReaderNext
    \/ \E f \in Inputs : PollPassReadError(f)

SpecReaderIO == InitReader /\ [][ReaderIONext]_vars

\* The reader with an input that never runs dry. The thread that calls
\* read calls it again and again (read_exact in the loop of pipe_frames) and
\* the fetch loop keeps running while poll returns.
StreamNext ==
    \/ ReaderNext
    \/ \E i \in Inputs : Produce(i)

InitStream ==
    /\ StreamInit /\ PipeIdle /\ FrameIdle /\ DimIdle /\ TableIdle
    /\ CodecIdle /\ ArtnetIdle /\ HubIdle /\ TimeoutIdle /\ ListFileIdle /\ FluxIdle /\ GpioIdle

SpecStream ==
    /\ InitStream
    /\ [][StreamNext]_vars
    /\ WF_vars(\E n \in ReadLens : ReadCall(n))
    /\ WF_vars(PollPass)

\* The pure functions, each applied to inputs drawn at the start.
InitFrame ==
    /\ FrameInit /\ ReaderIdle /\ PipeIdle /\ DimIdle /\ TableIdle
    /\ CodecIdle /\ ArtnetIdle /\ HubIdle /\ TimeoutIdle /\ ListFileIdle /\ FluxIdle /\ GpioIdle
SpecFrame == InitFrame /\ [][FrameNext]_vars

InitDim ==
    /\ DimInit /\ ReaderIdle /\ PipeIdle /\ FrameIdle /\ TableIdle
    /\ CodecIdle /\ ArtnetIdle /\ HubIdle /\ TimeoutIdle /\ ListFileIdle /\ FluxIdle /\ GpioIdle
SpecDim == InitDim /\ [][DimNext]_vars

InitTable ==
    /\ TableInit /\ ReaderIdle /\ PipeIdle /\ FrameIdle /\ DimIdle
    /\ CodecIdle /\ ArtnetIdle /\ HubIdle /\ TimeoutIdle /\ ListFileIdle /\ FluxIdle /\ GpioIdle
SpecTable == InitTable /\ [][TableNext]_vars

\* The codecs, each applied to a frame drawn at the start.
InitCodec ==
    /\ CodecInit /\ ReaderIdle /\ PipeIdle /\ FrameIdle /\ DimIdle /\ TableIdle
    /\ ArtnetIdle /\ HubIdle /\ TimeoutIdle /\ ListFileIdle /\ FluxIdle /\ GpioIdle
SpecCodec == InitCodec /\ [][CodecNext]_vars

\* The Art-Net sender, written to in chunks.
InitArtnet ==
    /\ ArtnetInit /\ ReaderIdle /\ PipeIdle /\ FrameIdle /\ DimIdle /\ TableIdle
    /\ CodecIdle /\ HubIdle /\ TimeoutIdle /\ ListFileIdle /\ FluxIdle /\ GpioIdle
SpecArtnet == InitArtnet /\ [][ArtnetNext]_vars

\* The HUB75 output: the thread calling output_frame and the worker thread.
InitHub ==
    /\ HubInit /\ ReaderIdle /\ PipeIdle /\ FrameIdle /\ DimIdle /\ TableIdle
    /\ CodecIdle /\ ArtnetIdle /\ TimeoutIdle /\ ListFileIdle /\ FluxIdle /\ GpioIdle
SpecHub == InitHub /\ [][HubNext]_vars


\* The clear timeout, from an argument drawn at the start.
InitTimeout ==
    /\ TimeoutInit /\ ReaderIdle /\ PipeIdle /\ FrameIdle /\ DimIdle /\ TableIdle /\ CodecIdle /\ ArtnetIdle /\ HubIdle /\ ListFileIdle /\ FluxIdle /\ GpioIdle
SpecTimeout == InitTimeout /\ [][TimeoutNext]_vars


\* The list-file watcher, from a file drawn at the start; with the watcher
\* thread scheduled fairly in the second.
InitListFile ==
    /\ ListFileInit /\ ReaderIdle /\ PipeIdle /\ FrameIdle /\ DimIdle /\ TableIdle /\ CodecIdle /\ ArtnetIdle /\ HubIdle /\ TimeoutIdle /\ FluxIdle /\ GpioIdle
SpecListFile == InitListFile /\ [][ListFileNext]_vars
SpecListFileFair ==
    /\ InitListFile
    /\ [][ListFileNext]_vars
    /\ WF_vars(WatcherStat) /\ WF_vars(WatcherReload)
    /\ WF_vars(WatcherContinue) /\ WF_vars(WatcherWake)


\* The Flux-LED display, from a frame and first connections drawn at the start.
InitFlux ==
    /\ FluxInit /\ ReaderIdle /\ PipeIdle /\ FrameIdle /\ DimIdle /\ TableIdle /\ CodecIdle /\ ArtnetIdle /\ HubIdle /\ TimeoutIdle /\ ListFileIdle /\ GpioIdle
SpecFlux == InitFlux /\ [][FluxNext]_vars


\* The GPIO lines of the HUB75 worker, from a matrix and a frame drawn at
\* the start.
InitGpio ==
    /\ GpioInit /\ ReaderIdle /\ PipeIdle /\ FrameIdle /\ DimIdle /\ TableIdle /\ CodecIdle /\ ArtnetIdle /\ HubIdle /\ TimeoutIdle /\ ListFileIdle /\ FluxIdle
SpecGpio == InitGpio /\ [][GpioNext]_vars

(***************************************************************************)
(* Properties of the frame reader.                                         *)
(***************************************************************************)
\* seq is a run of consecutive bytes of one input.
IsRunOf(seq) ==
    \A j \in 1..Len(seq) : seq[j] = ByteOf(seq[1][1], seq[1][2] + j - 1)

\* The k-th frame-sized block of the reader's output stream.
OutBlock(k) == SubSeq(out, (k - 1) * SwitchAfter + 1, k * SwitchAfter)

\* Input i is closed (or a file at its end) and holds no unread byte.
ClosedDrained(i) == avail[i] = <<>> /\ ~wopen[i]

AllDrained == \A i \in Inputs : ClosedDrained(i)

WholeMultiples == \A i \in Inputs : supplied[i] % SwitchAfter = 0

\* Input i holds, with what its buffer has, at least a frame's worth of bytes
\* that poll reports readable.
Completes(i) ==
    avail[i] # <<>> /\ Len(buffers[i]) + Len(avail[i]) >= SwitchAfter

\* The lowest-indexed input that can complete a frame (0: none).
Winner ==
    IF \E i \in Inputs : Completes(i)
    THEN CHOOSE i \in Inputs : Completes(i) /\ \A j \in Inputs : Completes(j) => i <= j
    ELSE 0

\* The frame input w completes.
ExpectedFrame(w) == SubSeq(buffers[w] \o avail[w], 1, SwitchAfter)

\* A step of the reader's fetch loop (the writers' steps change supplied or
\* wopen).
PassStep == rpc = "fetch" /\ supplied' = supplied /\ wopen' = wopen

\* The bytes of input i in a sequence, in order.
RECURSIVE BytesFrom(_, _)
BytesFrom(seq, i) ==
    IF seq = <<>> THEN <<>>
    ELSE (IF Head(seq)[1] = i THEN <<Head(seq)>> ELSE <<>>) \o BytesFrom(Tail(seq), i)

\* The part of the current frame the caller has not read yet.
Unread == SubSeq(current, position + 1, Len(current))

\* C1: under AllClosed and without a clear timeout, when every input
\* supplies a whole multiple of switch_after bytes and the caller reads with
\* frame-sized buffers, every successful read returns one whole frame, EOF
\* is returned only after exactly k = total / switch_after frames, and once
\* all inputs are closed and drained the pending read returns EOF.
C1_ExactlyKFramesThenEof ==
    (exit_condition = "AllClosed" /\ ~clear_timeout /\ onlyFrameReads /\ WholeMultiples)
    => /\ Len(out) = nOk * SwitchAfter
       /\ \A k \in 1..nOk : IsRunOf(OutBlock(k)) /\ Len(OutBlock(k)) = SwitchAfter
       /\ lastRet = 0 =>
            /\ Len(out) = TotalSupplied
            /\ nOk * SwitchAfter = TotalSupplied
       /\ (rpc = "fetch" /\ AllDrained) =>
            /\ PollCount > 0
            /\ PassResult.close
            /\ Len(out) = TotalSupplied

\* C1's case: two inputs supplied one frame each, both frames were read and
\* the third read returned EOF.
C1_Witness ==
    /\ exit_condition = "AllClosed" /\ ~clear_timeout /\ onlyFrameReads
    /\ \A i \in Inputs : supplied[i] \in {0, SwitchAfter}
    /\ TotalSupplied = 2 * SwitchAfter
    /\ nOk = 2
    /\ lastRet = 0

\* C2: every frame-sized block of the output stream is a run of consecutive
\* bytes of one input, the frame selected for output is always whole, and
\* the output stream ends inside a frame only as far as the caller has read
\* into the current frame.
C2_FramesAreWhole ==
    /\ \A k \in 1..(Len(out) \div SwitchAfter) : IsRunOf(OutBlock(k))
    /\ Len(current) \in {0, SwitchAfter}
    /\ IsRunOf(current)
    /\ position <= Len(current)
    /\ LET r == Len(out) % SwitchAfter IN
       /\ r = position % SwitchAfter
       /\ SubSeq(out, Len(out) - r + 1, Len(out)) = SubSeq(current, 1, r)

\* C2's case: input 2 completed a frame and it was handed out while input 1
\* holds a partial frame.
C2_Witness ==
    /\ Len(out) = SwitchAfter
    /\ out[1][1] = 2
    /\ buffers[1] # <<>>
    /\ kind[1] = "fifo"

\* C3: no byte that was in a per-input buffer when a poll timeout cleared
\* the buffers is in a buffer, in the current frame or in the output
\* afterwards: the partial frame is dropped for good.
C3_DiscardedNeverOutput ==
    /\ \A k \in 1..Len(out) : out[k] \notin discarded
    /\ \A k \in 1..Len(current) : current[k] \notin discarded
    /\ \A i \in Inputs : \A k \in 1..Len(buffers[i]) : buffers[i][k] \notin discarded

\* C3's case: a timeout discarded a partial frame of an input, and a later
\* frame of the same input was handed out.
C3_Witness ==
    /\ clear_timeout
    /\ \E b \in discarded : \E k \in 1..Len(out) :
          out[k][1] = b[1] /\ out[k][2] > b[2]
    /\ Len(out) >= SwitchAfter

\* C4: under ExitCondition::Never no read returns 0 bytes, and a pass of the
\* fetch loop never decides to close, whatever the inputs' state.
C4_NeverNoEof ==
    exit_condition = "Never" =>
        /\ lastRet # 0
        /\ (rpc = "fetch" /\ (PollCount > 0 \/ clear_timeout)) => ~PassResult.close

\* C4's case: under Never every input is closed and drained, frames were
\* read before, and a read is in its fetch loop.
C4_Witness ==
    /\ exit_condition = "Never"
    /\ AllDrained
    /\ rpc = "fetch"
    /\ Len(out) >= SwitchAfter
    /\ \E i \in Inputs : kind[i] = "fifo"

\* The exit condition as the claim states it, on the inputs' state at the
\* pass: OneClosed, some input is closed and none completes a frame;
\* AllClosed, no input is open.
ExitMet ==
    \/ exit_condition = "OneClosed"
       /\ \E i \in Inputs : ClosedDrained(i)
       /\ \A j \in Inputs : ~Completes(j)
    \/ exit_condition = "AllClosed" /\ AllDrained

\* C5: a pass of the fetch loop returns EOF exactly when the exit condition
\* is met; so under AllClosed EOF is returned only when every input is
\* closed and drained.
C5_EofIffExitMet ==
    [][PassStep => ((rpc' = "idle" /\ lastRet' = 0) <=> ExitMet)]_vars

\* C5's case: under AllClosed one input was at its end from the start, the
\* frames of the other were delivered, and then EOF was returned.
C5_Witness ==
    /\ exit_condition = "AllClosed"
    /\ lastRet = 0
    /\ Len(out) >= SwitchAfter
    /\ \E j \in Inputs : supplied[j] = 0

\* C6: (a) absent a discarding timeout, for every input the bytes handed
\* out, the unread rest of the current frame, the input's buffer and its
\* unread bytes make up, in this order, exactly the bytes the input
\* supplied; (b) no buffer holds a whole frame between passes, and the pass
\* in which a frame becomes complete hands it out; (c) of the inputs that
\* can complete a frame in a pass the lowest-indexed one is handed out.
C6_State ==
    /\ discarded = {} =>
          \A i \in Inputs :
             BytesFrom(out, i) \o BytesFrom(Unread, i) \o buffers[i] \o avail[i]
                = BytesOf(i, 1, supplied[i])
    /\ \A i \in Inputs : Len(buffers[i]) < SwitchAfter

C6_FrameOrder ==
    /\ []C6_State
    /\ [][(PassStep /\ Winner # 0 /\ Len(buffers[Winner]) < SwitchAfter)
            => /\ rpc' = "idle"
               /\ current' = ExpectedFrame(Winner)
               /\ out' = out \o SubSeq(ExpectedFrame(Winner), 1, Min(want, SwitchAfter))]_vars

\* C6's case: two files hold a whole frame each from the start, so both can
\* complete a frame in the first pass; input 1's frame was handed out first,
\* then input 2's.
C6_Witness ==
    /\ discarded = {}
    /\ kind[1] = "file" /\ kind[2] = "file"
    /\ supplied[1] >= SwitchAfter /\ supplied[2] >= SwitchAfter
    /\ Len(out) = 2 * SwitchAfter
    /\ out[1][1] = 1
    /\ out[SwitchAfter + 1][1] = 2

(***************************************************************************)
(* Properties of the pipeline.                                             *)
(***************************************************************************)
\* The only error reported is the read stage's UnexpectedEof: the input
\* ended on a frame boundary and nothing failed.
CleanEof ==
    /\ errLog = <<[from |-> "read", err |-> "UnexpectedEof"]>>
    /\ panicked = {}

\* C7: when the input ends on a frame boundary, every frame read has been
\* passed to the output sink by the time pipe_frames returns.
C7_AllFramesOutputAtReturn ==
    (result # "running" /\ CleanEof) => Len(sunk) = nRead

\* C8: on a clean end of input pipe_frames returns Ok.
C8_CleanEofReturnsOk ==
    (result # "running" /\ CleanEof) => result = "Ok"

\* C9: when pipe_frames returned a stage's I/O error, the process exits with
\* a non-zero status.
C9_ErrorExitsNonZero ==
    (exited /\ result \in {"ReadError", "OutputError"}) => exitCode # 0

\* C10: pipe_frames returns the first error sent on the error channel; it
\* returns Ok only when no error was ever sent and both error senders (the
\* read stage's and the output stage's) are dropped; a stage that reported
\* an error has returned from its thread.
C10_FirstErrorVerdict ==
    /\ result \notin {"running", "Ok"} =>
          errLog # <<>> /\ result = errLog[1].err
    /\ result = "Ok" =>
          errLog = <<>> /\ pc["read"] = "done" /\ pc["output"] = "done"
    /\ \A k \in 1..Len(errLog) : pc[errLog[k].from] = "done"

\* C10's case: two stages reported different errors before main received
\* one, and pipe_frames has returned.
C10_Witness ==
    /\ result # "running"
    /\ Len(errLog) = 2
    /\ errLog[1].err # errLog[2].err

\* The frame the output sink is due for the k-th frame of the input.
Transformed(k) == TransformFrame(InputFrame(k), transposition, CorrectionNone, dim)

\* C11: with single_frame set the read stage reads one frame and no more;
\* when no error was reported pipe_frames returns Ok, and it returns Ok only
\* after that one frame was read, transformed and handed to the sink
\* (output_frame returned), with all three stages terminated and nothing
\* left in the queues.
C11_SingleFrame ==
    /\ single_frame => (nRead <= 1 /\ Len(sunk) <= 1)
    /\ (single_frame /\ result # "running" /\ errLog = <<>>) => result = "Ok"
    /\ (single_frame /\ result = "Ok") =>
          /\ nRead = 1
          /\ sunk = <<Transformed(1)>>
          /\ \A s \in Stages : pc[s] = "done" /\ held[s] = <<>>
          /\ inputQ = <<>> /\ mapQ = <<>>

\* C11's case: single_frame is set, the input holds more than one frame and
\* pipe_frames has returned Ok.
C11_Witness ==
    /\ single_frame
    /\ srcLen >= 2
    /\ result = "Ok"
    /\ Len(sunk) = 1

\* C12: at every moment the frames passed to the sink are the transformed
\* first frames of the input, in the input's order, none skipped, repeated
\* or torn, each of exactly num_pixels pixels.
C12_SunkIsPrefix ==
    /\ Len(sunk) <= nRead
    /\ \A k \in 1..Len(sunk) :
          /\ sunk[k] = Transformed(k)
          /\ Len(sunk[k]) = NumPixels
          /\ \A q \in 1..NumPixels : Len(sunk[k][q]) = 3

\* C12's case: the output stage is behind the read stage after two frames
\* went through.
C12_Witness ==
    /\ Len(sunk) >= 2
    /\ nRead >= Len(sunk) + 2
    /\ pc["output"] = "write"

\* C13: each of the two queues holds at most one frame, so that the frames
\* read and not yet output never exceed one per stage and one per queue.
C13_SingleSlotQueues ==
    /\ Len(inputQ) <= 1
    /\ Len(mapQ) <= 1
    /\ nRead - Len(sunk) <= Cardinality(Stages) + 2

\* C13's case: the output stage stalls in output_frame, both queues are
\* full, the read stage holds a frame it cannot send and the input has more.
C13_Witness ==
    /\ pc["output"] = "write"
    /\ Len(inputQ) = 1 /\ Len(mapQ) = 1
    /\ pc["transform"] = "send"
    /\ pc["read"] = "send"
    /\ nRead - Len(sunk) = Cardinality(Stages) + 2
    /\ nRead < srcLen

(***************************************************************************)
(* Properties of the transform and of the Generic RGB24 codec.             *)
(***************************************************************************)
\* t is the identity table.
IsIdentity(t) == \A i \in 1..Len(t) : t[i] = i - 1

\* Pixel i (from 0) of the raw frame.
RawPixel(i) == <<fr_bin[3 * i + 1], fr_bin[3 * i + 2], fr_bin[3 * i + 3]>>

\* C14: with the identity table, no colour correction and dim 255 (1.0) the
\* bytes the RGB24 codec writes for a frame are the frame's input bytes; the
\* 3-pixel input 00 01 .. 08 comes out as 00 01 .. 08.
C14_Rgb24PassThrough ==
    /\ (fr_written # <<>> /\ IsIdentity(fr_table) /\ fr_corr = "none" /\ fr_dim = 255)
          => fr_written = fr_bin
    /\ (fr_written # <<>> /\ fr_bin = <<0, 1, 2, 3, 4, 5, 6, 7, 8>>
          /\ fr_table = <<0, 1, 2>> /\ fr_corr = "none" /\ fr_dim = 255)
          => fr_written = <<0, 1, 2, 3, 4, 5, 6, 7, 8>>

\* C14's case: the 3-pixel frame 00 .. 08 went through the identity
\* transform and the codec.
C14_Witness ==
    /\ fr_bin = <<0, 1, 2, 3, 4, 5, 6, 7, 8>>
    /\ fr_table = <<0, 1, 2>>
    /\ fr_corr = "none"
    /\ fr_dim = 255
    /\ fr_written = <<0, 1, 2, 3, 4, 5, 6, 7, 8>>

\* C15: the transform stores input pixel i, dimmed and then corrected, at
\* position table[i] of the frame; reversed on 3 pixels the input
\* AA BB CC 11 22 33 44 55 66 is written as 44 55 66 11 22 33 AA BB CC.
C15_StoredAtPermutation ==
    /\ fr_pixels # <<>> =>
          /\ Len(fr_pixels) = Len(fr_table)
          /\ \A i \in 0..(Len(fr_table) - 1) :
                fr_pixels[fr_table[i + 1] + 1] =
                    Correct(CorrectionOf(fr_corr), DimPixel(RawPixel(i), fr_dim))
    /\ (fr_written # <<>> /\ fr_bin = <<170, 187, 204, 17, 34, 51, 68, 85, 102>>
          /\ fr_table = <<2, 1, 0>> /\ fr_corr = "none" /\ fr_dim = 255)
          => fr_written = <<68, 85, 102, 17, 34, 51, 170, 187, 204>>

\* C15's case: the reversed 3-pixel example has been written.
C15_Witness ==
    /\ fr_bin = <<170, 187, 204, 17, 34, 51, 68, 85, 102>>
    /\ fr_table = <<2, 1, 0>>
    /\ fr_corr = "none"
    /\ fr_dim = 255
    /\ fr_written = <<68, 85, 102, 17, 34, 51, 170, 187, 204>>

\* C16: for every channel value c and dim d of 0..255 the dimmed channel is
\* floor(c * d / 255) and the product fits 16 bits; at d = 255 the pixel is
\* unchanged; the result does not decrease when c grows; (200, 100, 50) at
\* d = 128 becomes (100, 50, 25).
C16_DimIsFloor ==
    dm_out # <<>> =>
        /\ \A ch \in 1..3 :
              /\ ~DimOverflows(dm_pix[ch], dm_dim)
              /\ dm_out[ch] = (dm_pix[ch] * dm_dim) \div 255
              /\ dm_out[ch] \in Bytes
        /\ dm_dim = 255 => dm_out = dm_pix
        /\ dm_pix[1] < 255 => dm_out[1] <= DimChannel(dm_pix[1] + 1, dm_dim)
        /\ (dm_pix = <<200, 100, 50>> /\ dm_dim = 128) => dm_out = <<100, 50, 25>>

\* C16's case: the pixel (200, 100, 50) dimmed with d = 128.
C16_Witness ==
    /\ dm_pix = <<200, 100, 50>>
    /\ dm_dim = 128
    /\ dm_out = <<100, 50, 25>>

(***************************************************************************)
(* Properties of transposition_table and of the transpositions.            *)
(***************************************************************************)
\* transposition_table has returned.
Returned == tt_result.state # "pending"

\* The operations that need 2D dimensions.
TwoDNames == {"zigzag_x", "zigzag_y", "mirror_x", "mirror_y"}

\* C17: a table transposition_table returns has dimensions.size() entries
\* and holds every index of 0..size-1 exactly once; no accepted list makes
\* a transposition panic.
C17_TableIsBijection ==
    /\ tt_result.state # "panic"
    /\ tt_result.state = "Ok" =>
          /\ Len(tt_result.table) = DimSize(tt_dimensions)
          /\ \A v \in 0..(DimSize(tt_dimensions) - 1) :
                Cardinality({i \in 1..Len(tt_result.table) : tt_result.table[i] = v}) = 1

\* C17's case: a table was returned for a 4x3 matrix and a list of two
\* different 2D operations.
C17_Witness ==
    /\ tt_result.state = "Ok"
    /\ tt_dimensions = DimTwo(4, 3)
    /\ tt_operations = <<"zigzag_x", "mirror_y">>

\* C18: Reverse, Mirror X and Mirror Y are their own inverses on every index
\* of the dimensions, and a list that names one of them twice compiles to
\* the identity table.
C18_Involutions ==
    Returned =>
        /\ \A i \in 0..(DimSize(tt_dimensions) - 1) :
              /\ Reverse(DimSize(tt_dimensions), Reverse(DimSize(tt_dimensions), i)) = i
              /\ tt_dimensions.tag = "Two" =>
                    \A axis \in {"X", "Y"} :
                        Mirror(tt_dimensions.w, tt_dimensions.h, axis,
                               Mirror(tt_dimensions.w, tt_dimensions.h, axis, i)) = i
        /\ (tt_result.state = "Ok" /\ Len(tt_operations) = 2
               /\ tt_operations[1] = tt_operations[2]
               /\ tt_operations[1] \in {"reverse", "mirror_x", "mirror_y"})
              => IsIdentity(tt_result.table)
        /\ (tt_operations = <<"reverse", "reverse">>) =>
              (tt_result.state = "Ok" /\ IsIdentity(tt_result.table))

\* C18's case: [reverse, reverse] was compiled for a strip of more than two
\* pixels.
C18_Witness ==
    /\ tt_operations = <<"reverse", "reverse">>
    /\ tt_dimensions.tag = "One"
    /\ DimSize(tt_dimensions) >= 3
    /\ tt_result.state = "Ok"

\* C19: the operations are applied in the order given: the table of a list
\* is the table of the list without its last operation with the last
\* operation applied to every entry, and the empty list gives the identity;
\* [zigzag_y, reverse] on 4x3 gives 11 10 9 8 4 5 6 7 3 2 1 0.
C19_ConfigurationOrder ==
    tt_result.state = "Ok" =>
        /\ tt_operations = <<>> => IsIdentity(tt_result.table)
        /\ tt_operations # <<>> =>
              LET n == Len(tt_operations)
                  front == TranspositionTable(tt_dimensions, SubSeq(tt_operations, 1, n - 1))
                  last == MakeTransposition(tt_operations[n], tt_dimensions).tr
              IN  /\ front.state = "Ok"
                  /\ \A i \in 1..DimSize(tt_dimensions) :
                        tt_result.table[i] = Transpose(last, front.table[i])
        /\ (tt_dimensions = DimTwo(4, 3) /\ tt_operations = <<"zigzag_y", "reverse">>)
              => tt_result.table = <<11, 10, 9, 8, 4, 5, 6, 7, 3, 2, 1, 0>>

\* C19's case: the list [zigzag_y, reverse] was compiled for 4x3.
C19_Witness ==
    /\ tt_dimensions = DimTwo(4, 3)
    /\ tt_operations = <<"zigzag_y", "reverse">>
    /\ tt_result.table = <<11, 10, 9, 8, 4, 5, 6, 7, 3, 2, 1, 0>>

\* C20: for 1D dimensions a list that names zigzag_x, zigzag_y, mirror_x or
\* mirror_y anywhere makes transposition_table return an error and no
\* table; lists of reverse alone are accepted for 1D and for 2D dimensions.
C20_TwoDOnlyRejectedFor1D ==
    Returned =>
        /\ (tt_dimensions.tag = "One"
               /\ \E k \in 1..Len(tt_operations) : tt_operations[k] \in TwoDNames)
              => (tt_result.state = "Err" /\ tt_result.table = <<>>)
        /\ (\A k \in 1..Len(tt_operations) : tt_operations[k] = "reverse")
              => tt_result.state = "Ok"

\* C20's case: a strip with a 2D operation after an accepted reverse.
C20_Witness ==
    /\ tt_dimensions = DimOne(3)
    /\ tt_operations = <<"reverse", "zigzag_x">>
    /\ tt_result.state = "Err"
    /\ tt_result.name = "zigzag_x"


(***************************************************************************)
(* Properties of the SPI codecs.                                           *)
(***************************************************************************)
\* The frame of the APA102 example: (R,G,B) = (10,20,30) and (40,50,60).
Apa102Example == << <<10, 20, 30>>, <<40, 50, 60>> >>

\* What the APA102 codec wrote is four zero bytes, then per pixel
\* 0xE0 | gs, b, g, r.
Apa102Layout ==
    /\ Len(cd_written) = 4 + 4 * Len(cd_pixels)
    /\ SubSeq(cd_written, 1, 4) = <<0, 0, 0, 0>>
    /\ \A j \in 1..Len(cd_pixels) :
          SubSeq(cd_written, 4 * j + 1, 4 * j + 4) =
              <<224 + cd_grayscale, cd_pixels[j][3], cd_pixels[j][2], cd_pixels[j][1]>>

\* C21 as the specification states it: the APA102 codec writes four zero
\* bytes, then per pixel 0xE0|gs, b, g, r, and with gs = 31 it encodes the
\* pixels (10,20,30) and (40,50,60) as 00 00 00 00 FF 30 20 10 FF 3C 32 28.
C21_Apa102ExampleAsStated ==
    (cd_done /\ cd_device = "apa102") =>
        /\ Apa102Layout
        /\ (cd_grayscale = 31 /\ cd_pixels = Apa102Example) =>
              cd_written = <<0, 0, 0, 0, 255, 48, 32, 16, 255, 60, 50, 40>>

\* C21, amended: the APA102 codec writes four zero bytes, then per pixel
\* 0xE0|gs, b, g, r, and with gs = 31 it encodes the pixels (10,20,30) and
\* (40,50,60) as 00 00 00 00 FF 1E 14 0A FF 3C 32 28.
C21_Apa102Example ==
    (cd_done /\ cd_device = "apa102") =>
        /\ Apa102Layout
        /\ (cd_grayscale = 31 /\ cd_pixels = Apa102Example) =>
              cd_written = <<0, 0, 0, 0, 255, 30, 20, 10, 255, 60, 50, 40>>

C21_Witness ==
    /\ cd_done
    /\ cd_device = "apa102"
    /\ cd_grayscale = 31
    /\ cd_pixels = Apa102Example
    /\ Len(cd_written) = 12

\* Bit n (from 0, the most significant bit of a byte first) of what was
\* written.
OutBit(n) == (cd_written[(n \div 8) + 1] \div Pow2(7 - (n % 8))) % 2

\* What the WS2812 codec wrote is 9 bytes per pixel: every bit of g, r, b,
\* most significant first, as the SPI bits 110 for a 1 and 100 for a 0.
Ws2812Layout ==
    /\ Len(cd_written) = 9 * Len(cd_pixels)
    /\ \A j \in 1..Len(cd_pixels), c \in 1..3, k \in 0..7 :
          LET value == <<cd_pixels[j][2], cd_pixels[j][1], cd_pixels[j][3]>>[c]
              bit == (value \div Pow2(7 - k)) % 2
              base == 72 * (j - 1) + 24 * (c - 1) + 3 * k
          IN  /\ OutBit(base) = 1
              /\ OutBit(base + 1) = bit
              /\ OutBit(base + 2) = 0

\* C22 as the specification states it: the WS2812 codec expands the bits
\* of g, r, b into 110 and 100, 9 bytes per pixel, and the first three bytes
\* for the pixel (G=0x80, R=0, B=0) are 0xE4, 0x92, 0x49.
C22_Ws2812ExampleAsStated ==
    (cd_done /\ cd_device = "ws2812") =>
        /\ Ws2812Layout
        /\ (cd_pixels # <<>> /\ cd_pixels[1] = <<0, 128, 0>>) =>
              SubSeq(cd_written, 1, 3) = <<228, 146, 73>>

\* C22, amended: the WS2812 codec expands the bits of g, r, b into 110 and
\* 100, 9 bytes per pixel, and the first three bytes for the pixel
\* (G=0x80, R=0, B=0) are 0xD2, 0x49, 0x24.
C22_Ws2812Example ==
    (cd_done /\ cd_device = "ws2812") =>
        /\ Ws2812Layout
        /\ (cd_pixels # <<>> /\ cd_pixels[1] = <<0, 128, 0>>) =>
              SubSeq(cd_written, 1, 3) = <<210, 73, 36>>

C22_Witness ==
    /\ cd_done
    /\ cd_device = "ws2812"
    /\ cd_pixels = << <<0, 128, 0>> >>
    /\ Len(cd_written) = 9


(***************************************************************************)
(* Properties of the Art-Net sender.                                       *)
(***************************************************************************)
\* The ArtDmx packet for universe u and payload p, byte by byte.
ExpectedArtDmx(u, p) ==
    <<65, 114, 116, 45, 78, 101, 116, 0, 0, 80, 4, 14, 0, 0,
      u % 256, u \div 256, Len(p) \div 256, Len(p) % 256>> \o p

\* The payload of the k-th frame written to the sender.
FramePayload(k) == ArtnetBytes((k - 1) * an_frame_size + 1, an_frame_size)

\* How many whole frames the sender was given.
FramesWritten == an_written \div an_frame_size

\* C23: for every universe u and every payload p shorter than 0xFFFF bytes
\* the datagrams sent hold "Art-Net\0", 00 50, 04, 0E, 00, 00, u & 0xFF,
\* u >> 8, the length of p as 16-bit big-endian, then p; for u = 0x1234 and
\* p = AB CD EF that is
\* 41 72 74 2D 4E 65 74 00 00 50 04 0E 00 00 34 12 00 03 AB CD EF.
C23_ArtDmxPacket ==
    /\ \A m \in 1..Len(an_sent) :
          \E k \in 1..FramesWritten :
              an_sent[m].packet = ExpectedArtDmx(an_universe, FramePayload(k))
    /\ ~an_failed =>
          \A m \in 1..Len(an_sent) :
              an_sent[m].packet =
                  ExpectedArtDmx(an_universe, FramePayload(((m - 1) \div Len(an_addrs)) + 1))
    /\ (an_universe = 4660 /\ an_frame_size = 3 /\ an_sent # <<>> /\ ~an_failed) =>
          an_sent[1].packet = <<65, 114, 116, 45, 78, 101, 116, 0, 0, 80, 4, 14, 0, 0,
                                52, 18, 0, 3, 171, 205, 239>>

\* C23's case: the frame AB CD EF was written to the sender of universe
\* 0x1234 and a datagram of 21 bytes went out.
C23_Witness ==
    /\ an_universe = 4660
    /\ an_frame_size = 3
    /\ ~an_failed
    /\ an_sent # <<>>
    /\ Len(an_sent[1].packet) = 21
    /\ SubSeq(an_sent[1].packet, 19, 21) = <<171, 205, 239>>

\* C24: a payload of 0xFFFF bytes or more makes the write and every flush
\* fail with "data exceeds max dmx packet length", the packet buffer stays
\* empty and nothing is sent; every payload shorter than 0xFFFF bytes is
\* accepted: the packet is built and no call fails with that error.
C24_DmxLengthLimit ==
    /\ an_frame_size >= 65535 =>
          /\ an_packet = <<>>
          /\ an_sent = <<>>
          /\ FramesWritten >= 1 =>
                /\ an_ret.state = "Err"
                /\ an_ret.err = "data exceeds max dmx packet length"
    /\ an_frame_size < 65535 =>
          /\ an_ret.err # "data exceeds max dmx packet length"
          /\ FramesWritten >= 1 => Len(an_packet) = 18 + an_frame_size

\* C24's case: a frame of exactly 0xFFFF bytes was written and refused.
C24_Witness ==
    /\ an_frame_size = 65535
    /\ an_written = 65535
    /\ an_ret.state = "Err"
    /\ an_sent = <<>>


(***************************************************************************)
(* Properties of the HUB75 output.                                         *)
(***************************************************************************)
\* C25: output_frame is non-blocking: the thread that called it is never
\* held in send, its frame not yet taken, while the worker is inside its
\* refresh cycle.
C25_OutputFrameDoesNotWait ==
    hb_caller = "send" => (hb_offer = 0 \/ hb_worker # "refresh")

\* C26: construction succeeds only when H % scan_height = 0, the red, green
\* and blue pin lists have the same length k and k * scan_height = H, every
\* other configuration is rejected with an error and not with a panic, so
\* the worker never reads a pixel index outside the W * H frame.
C26_ConstructionFitsFrame ==
    /\ hb_built = "Ok" =>
          /\ hb_height % ScanHeight(hb_level_select) = 0
          /\ hb_red = hb_green /\ hb_green = hb_blue
          /\ hb_red * ScanHeight(hb_level_select) = hb_height
    /\ hb_built # "panic"
    /\ hb_worker # "panic"


(***************************************************************************)
(* More properties of the frame reader.                                    *)
(***************************************************************************)
\* This step of the fetch loop hands a frame to the caller.
HandOut == PassStep /\ nOk' = nOk + 1

\* C27: when one input completes a frame and the frame is handed out, what
\* the other inputs have accumulated is left as it is (the pass may append
\* bytes it read from them, and loses none), so without a clear timeout
\* every frame handed out to a caller reading whole frames is one whole
\* frame of one input, also one started before and finished after another
\* input's frame went out.
C27_OtherBuffersKept ==
    [][ /\ HandOut =>
              \A j \in Inputs \ {Winner} :
                  /\ Len(buffers'[j]) >= Len(buffers[j])
                  /\ SubSeq(buffers'[j], 1, Len(buffers[j])) = buffers[j]
                  /\ buffers'[j] \o avail'[j] = buffers[j] \o avail[j]
        /\ (~clear_timeout /\ onlyFrameReads') =>
              \A k \in 1..nOk' :
                  /\ IsRunOf(OutBlock(k)')
                  /\ OutBlock(k)'[1][2] % SwitchAfter = 1
      ]_vars

\* C27's case: input 2's frame went out while input 1 held the first byte
\* of a frame, and the byte is still in input 1's buffer.
C27_Witness ==
    /\ rpc = "idle"
    /\ nOk = 1
    /\ out = BytesOf(2, 1, SwitchAfter)
    /\ buffers[1] = <<ByteOf(1, 1)>>

\* C28: every per-input buffer holds at most switch_after bytes, neither
\* assertion of the scan fires, and the tail left in the place of a buffer
\* whose frame is handed out is empty.
C28_BufferWithinFrame ==
    [][ /\ \A i \in Inputs : Len(buffers'[i]) <= SwitchAfter
        /\ rpc' # "panic"
        /\ HandOut => buffers'[Winner] = <<>>
      ]_vars

\* C28's case: an input had more than a frame of bytes readable, the read
\* took the frame only, and the buffer starts empty again.
C28_Witness ==
    /\ rpc = "idle"
    /\ Len(current) = SwitchAfter
    /\ \E i \in Inputs :
          /\ current[1][1] = i
          /\ buffers[i] = <<>>
          /\ avail[i] # <<>>


\* C29: a failed read leaves the input's buffer as it was: every buffer
\* holds exactly the bytes last read from its input, no byte that was not
\* read is added, and the assertion that a buffer is not already full does
\* not fire in a later call.
C29_ReadErrorKeepsBuffer ==
    /\ \A i \in Inputs :
          buffers[i] = BytesOf(i, supplied[i] - Len(avail[i]) - Len(buffers[i]) + 1,
                               supplied[i] - Len(avail[i]))
    /\ rpc # "panic"

\* A frame of input i has been handed out and is the current one.
HandedOut(i) == current # <<>> /\ current[1][1] = i

\* C30: under fair scheduling an input that has a complete frame of data
\* available is eventually handed out, whatever the other inputs supply.
C30_NoStarvation ==
    \A i \in Inputs : Completes(i) ~> HandedOut(i)


(***************************************************************************)
(* Properties of the clear timeout.                                        *)
(***************************************************************************)
\* The number a string of at most 9 digits denotes.
RECURSIVE DecimalValue(_)
DecimalValue(digits) ==
    IF digits = <<>> THEN 0
    ELSE 10 * DecimalValue(SubSeq(digits, 1, Len(digits) - 1)) + digits[Len(digits)]

\* C31: for every clear-timeout value the command line accepts, nothing
\* overflows or wraps on the way: the Duration handed to the reader and the
\* timeout handed to poll are exactly that many milliseconds.
C31_ClearTimeoutExact ==
    /\ ct_state # "panic"
    /\ ct_state \in {"set", "polled"} =>
          /\ Len(ct_arg) <= 9
          /\ ct_duration.nanos % 1000000 = 0
          /\ ct_duration.secs * 1000 + ct_duration.nanos \div 1000000 = DecimalValue(ct_arg)
    /\ ct_state = "polled" => ct_poll = DecimalValue(ct_arg)


(***************************************************************************)
(* Properties of a sequence of writes to the Art-Net sender.               *)
(***************************************************************************)
\* The payload of a datagram: what follows the 18 bytes of header.
PayloadOf(packet) == SubSeq(packet, 19, Len(packet))

\* The payloads of the packets sent, one per packet, in sending order.
RECURSIVE PayloadsConcatenated(_)
PayloadsConcatenated(k) ==
    IF k = 0 THEN <<>>
    ELSE PayloadsConcatenated(k - 1) \o PayloadOf(an_sent[(k - 1) * Len(an_addrs) + 1].packet)

\* C32: while every write and flush succeeds, every packet sent carries exactly
\* frame_size payload bytes, the payloads in sending order followed by what
\* the frame buffer holds are the bytes written (so the payloads are a
\* prefix of them, the bytes past a frame boundary carried over), and each
\* packet goes to every address of the target, in the target's order.
C32_WritesPreserveBytes ==
    ~an_failed =>
        /\ \A m \in 1..Len(an_sent) : Len(PayloadOf(an_sent[m].packet)) = an_frame_size
        /\ Len(an_addrs) > 0 =>
              /\ Len(an_sent) % Len(an_addrs) = 0
              /\ \A m \in 1..Len(an_sent) :
                    /\ an_sent[m].addr = an_addrs[((m - 1) % Len(an_addrs)) + 1]
                    /\ an_sent[m].packet =
                           an_sent[((m - 1) \div Len(an_addrs)) * Len(an_addrs) + 1].packet
              /\ LET sent == PayloadsConcatenated(Len(an_sent) \div Len(an_addrs))
                 IN  /\ Len(sent) <= an_written
                     /\ sent = ArtnetBytes(1, Len(sent))
                     /\ sent \o an_frame_buffer = ArtnetBytes(1, an_written)

\* C32's case: four bytes were written to a sender of frames of three bytes
\* with two addresses; one packet went to both and the fourth byte is
\* carried over.
C32_Witness ==
    /\ an_frame_size = 3
    /\ an_addrs = <<"a", "b">>
    /\ an_written = 4
    /\ an_ret.state = "Ok"
    /\ Len(an_sent) = 2
    /\ an_frame_buffer = <<ArtnetByte(4)>>


(***************************************************************************)
(* Properties of the list-file watcher.                                    *)
(***************************************************************************)
\* C33: the cached address list holds no address more than once, whatever
\* the order of the lines of the file that was loaded.
C33_NoDuplicateAddresses ==
    \A j \in 1..Len(lf_cache), k \in 1..Len(lf_cache) :
        lf_cache[j] = lf_cache[k] => j = k

\* C34: once the sender is dropped, the watcher thread eventually exits.
C34_WatcherExits == (lf_sender = "dropped") ~> (lf_thread = "exited")

\* C35: after a failed reload the watcher sleeps before it tries again (it
\* never goes back to the top of the loop by `continue`), and it does not
\* sleep on a version of the file it recorded as seen while the list is
\* not what that version holds.
C35_FailedReloadRetried ==
    /\ lf_thread # "retry"
    /\ (lf_thread = "sleep" /\ lf_sender = "alive" /\ lf_prev_mod_time = lf_mtime) =>
          lf_cache = Dedup(ParseLines(lf_lines))


(***************************************************************************)
(* Properties of the Flux-LED bulbs.                                       *)
(***************************************************************************)
\* C36: the command a bulb receives for the pixel (r, g, b) is the 8 bytes
\* 31 r g b 00 00 0F c, with c the sum of the first seven modulo 256.
C36_FluxCommand ==
    \A k \in DOMAIN fx_last :
        fx_last[k].sent # <<>> =>
            LET pix == fx_frame[k]
            IN  fx_last[k].sent =
                    <<49, pix[1], pix[2], pix[3], 0, 0, 15,
                      (49 + pix[1] + pix[2] + pix[3] + 15) % 256>>

\* C36's case: a bulb was sent a command whose seven bytes add up to 256
\* or more, so that the checksum wraps.
C36_Witness ==
    \E k \in DOMAIN fx_last :
        /\ fx_last[k].sent # <<>>
        /\ 64 + fx_frame[k][1] + fx_frame[k][2] + fx_frame[k][3] >= 256
        /\ fx_last[k].sent[8] < 64

\* A frame was written in this step.
FrameWritten == fx_frames' = fx_frames + 1

\* C37: a failed send leaves the bulb without connection, a bulb without
\* connection is connected to anew by the next frame before anything is
\* sent, the write of a frame never fails, and a bulb whose own connection
\* and send succeed gets its command whatever happens to the other bulbs.
C37_BulbFailuresIsolated ==
    [][FrameWritten =>
          /\ fx_ret' = "Ok"
          /\ fx_buf' = <<>>
          /\ \A k \in Bulbs :
                /\ fx_last'[k].rs = "Err" => ~fx_conn'[k]
                /\ ~fx_conn[k] => fx_last'[k].connected
                /\ fx_outcome'[k] = "connect_err" =>
                      /\ fx_last'[k].sent = <<>>
                      /\ ~fx_conn'[k]
                /\ fx_outcome'[k] = "ok" =>
                      /\ Len(fx_last'[k].sent) = 8
                      /\ SubSeq(fx_last'[k].sent, 2, 4) = fx_frame[k]
                      /\ fx_conn'[k]
                /\ fx_outcome'[k] = "send_err" => fx_last'[k].rs = "Err"]_vars

\* C37's case: in the second frame the send to the first bulb failed, which
\* had been connected to anew after a failure in the first frame, and the
\* second bulb got its command.
C37_Witness ==
    /\ fx_frames = 2
    /\ fx_last[1].connected
    /\ fx_last[1].rs = "Err"
    /\ ~fx_conn[1]
    /\ Len(fx_last[2].sent) = 8
    /\ fx_ret = "Ok"


(***************************************************************************)
(* Properties of the Generic RGB16 codec.                                  *)
(***************************************************************************)
\* Bit 3 of green, and the upper five bits of blue as a number.
GreenBit3(pix) == (pix[2] \div 8) % 2
BlueHigh(pix) == pix[3] \div 8

\* What the RGB16 codec wrote is two bytes per pixel: (r & 0xF8) | (g >> 5),
\* the upper five bits of red over the upper three bits of green, then
\* ((g & 0x08) << 5) | (b >> 3) with the shift cut to 8 bits.
Rgb16Layout ==
    /\ Len(cd_written) = 2 * Len(cd_pixels)
    /\ \A j \in 1..Len(cd_pixels) :
          LET pix == cd_pixels[j]
          IN  /\ cd_written[2 * j - 1] = (pix[1] - (pix[1] % 8)) + (pix[2] \div 32)
              /\ cd_written[2 * j] = ((GreenBit3(pix) * 8 * 32) % 256) + BlueHigh(pix)

\* C40 as the specification states it: byte0 = (r & 0xF8) | (g >> 5),
\* byte1 = ((g & 0x08) << 5) | (b >> 3) in 8-bit arithmetic, and the second
\* byte carries one bit of green: it differs with bit 3 of green.
C40_Rgb16AsStated ==
    (cd_done /\ cd_device = "rgb16") =>
        /\ Rgb16Layout
        /\ \A j \in 1..Len(cd_pixels) :
              GreenBit3(cd_pixels[j]) = 1 => cd_written[2 * j] # BlueHigh(cd_pixels[j])

\* C40, amended: byte0 = (r & 0xF8) | (g >> 5), byte1 = ((g & 0x08) << 5) |
\* (b >> 3) in 8-bit arithmetic, which is b >> 3: the second byte carries no
\* bit of green.
C40_Rgb16 ==
    (cd_done /\ cd_device = "rgb16") =>
        /\ Rgb16Layout
        /\ \A j \in 1..Len(cd_pixels) :
              /\ cd_written[2 * j] = BlueHigh(cd_pixels[j])
              /\ cd_written[2 * j] < 32

\* C40's case: a pixel whose green has bit 3 set went through the codec.
C40_Witness ==
    /\ cd_done
    /\ cd_device = "rgb16"
    /\ cd_pixels # <<>>
    /\ GreenBit3(cd_pixels[1]) = 1
    /\ cd_pixels[1][3] >= 8
    /\ Len(cd_written) = 2


(***************************************************************************)
(* Properties of the GPIO lines of the HUB75 worker.                       *)
(***************************************************************************)
\* n copies of a sequence.
RECURSIVE Repeat(_, _)
Repeat(s, n) == IF n = 0 THEN <<>> ELSE s \o Repeat(s, n - 1)

Call(k, v) == [kind |-> k, value |-> v]

\* The calls of one row update in the order of the specification: per
\* column the data pins and a clock pulse, then output enable high, the
\* level-select pins, latch high, latch low, output enable low.
RowUpdateOrder ==
    Repeat(Repeat(<<Call("rgb", -1)>>, 3 * gp_lines)
               \o <<Call("clock", 1), Call("clock", 0)>>, gp_width)
    \o <<Call("oe", 1)>>
    \o Repeat(<<Call("ls", -1)>>, gp_nls)
    \o <<Call("latch", 1), Call("latch", 0), Call("oe", 0)>>

\* A level-select line or the latch line changes in this step.
SelectOrLatchChanges ==
    \E p \in DOMAIN gp_pin : p[1] \in {"ls", "latch"} /\ gp_pin'[p] # gp_pin[p]

\* C38: the calls of every row update come in the order clock in the
\* columns, output enable high, level select, latch high, latch low,
\* output enable low (a row update that a failed write ends is a prefix of
\* it), and a level-select line or the latch line changes only while output
\* enable is high, also after GPIO writes have failed.
C38_RowUpdateOrder ==
    [][/\ gp_calls' = SubSeq(RowUpdateOrder, 1, Len(gp_calls'))
       /\ SelectOrLatchChanges => (gp_pin[OE] = 1 /\ gp_pin'[OE] = 1)]_vars

\* C38's case: after a GPIO write had failed, a row update with a row
\* address other than 0 was carried out to its end.
C38_Witness ==
    /\ gp_fails >= 1
    /\ gp_pwm_cycles > 0
    /\ gp_calls = RowUpdateOrder
    /\ gp_pin[<<"ls", 0, 0>>] = 1
    /\ gp_pin[OE] = 0
    /\ gp_pin[LAT] = 0

\* The column being clocked in and the row, from the position in the row
\* update, and the pixel that data pin group `line` shows there.
CurColumn == (gp_pc - 1) \div (3 * gp_lines + 2)
CurRow == ScanInterleaved(gp_nls)[gp_row]
CurPixel(line) == gp_frame[(CurRow + line * ScanHeight(gp_nls)) * gp_width + CurColumn + 1]
CurMinVal == MinVal(gp_pwm_cycles, gp_i)

\* The clock line rises in this step: the data pins are sampled.
ClockRises == gp_pin[CLK] = 0 /\ gp_pin'[CLK] = 1

\* C39 as the specification states it: when a column is clocked in, a data
\* pin is high exactly when the channel of its pixel is above min_val, and
\* low when it equals min_val.
C39_DataPinAboveMinVal ==
    [][ClockRises =>
          \A line \in 0..(gp_lines - 1), c \in 1..3 :
              gp_pin[<<"rgb", line, c>>] = 1 <=> CurPixel(line)[c] > CurMinVal]_vars

\* C39, amended: when a column is clocked in, a data pin is high exactly
\* when the channel of its pixel is at least min_val; a channel equal to
\* min_val drives the pin high.
C39_DataPinAtLeastMinVal ==
    [][ClockRises =>
          \A line \in 0..(gp_lines - 1), c \in 1..3 :
              gp_pin[<<"rgb", line, c>>] = 1 <=> CurPixel(line)[c] >= CurMinVal]_vars

\* C39's case: the clock is high on a column with a channel equal to
\* min_val, and the pin of that channel is high.
C39_Witness ==
    /\ gp_pwm_cycles > 0
    /\ gp_pin[CLK] = 1
    /\ \E line \in 0..(gp_lines - 1), c \in 1..3 :
          /\ CurPixel(line)[c] = CurMinVal
          /\ gp_pin[<<"rgb", line, c>>] = 1

====
